---- MODULE Spec2Model ----
(***************************************************************************)
(* Model of criteo/s3-probe: the Watcher (pkg/watcher/watcher.go) that     *)
(* reconciles the set of running probes with the services registered in    *)
(* consul, the scheduling loop of each Probe (probe.go StartProbing), the   *)
(* preparation of its buckets and the bodies of its checks.                *)
(***************************************************************************)
EXTENDS Integers, Sequences, FiniteSets, Bags, TLC

\* ---------------------------------------------------------------- bounds
\* number of `make(chan bool)` the watcher may execute in one behaviour
MaxChans == 2
\* number of detached check goroutines that may be in flight at once, all probes together
MaxInflight == 3
\* number of discovery errors s3_service_discovery_error_total may count, all labels together
MaxErrCount == 1
\* durabilityItemTotal: the number of objects the durability bucket is seeded with
MaxItems == 2
\* number of storage calls that may fail during one call of PrepareProbing
MaxFaults == 1
\* number of detached checks whose body may be in progress at once, all probes together
MaxTasks == 1

\* the longest value of gateway_destinations, in characters
MaxFieldLen == 6

\* the largest rate per minute a configuration is given
MaxRate == 60001

\* ------------------------------------------------------------ input sets
Names == {"s1", "s2"}
Endpoints == {"10.0.0.1", "10.0.0.2", "bad endpoint"}
\* endpoints minio.New accepts
ValidEndpoints == {"10.0.0.1", "10.0.0.2"}
ReadEndpointLists == {<<"r1">>, <<"r2", "r1">>}
ProbeRates == {0, 120}
DurabilityRates == {0, 1}

millisecondInMinute == 60000

\* probe.S3Service values the consul client can return
S3Service ==
    [Name : Names, Endpoint : Endpoints, Gateway : {FALSE}, GatewayReadEnpoints : {<<>>}]
    \cup
    [Name : Names, Endpoint : Endpoints, Gateway : {TRUE}, GatewayReadEnpoints : ReadEndpointLists]

\* ------------------------------------------------------------- helpers
Range(s) == {s[i] : i \in DOMAIN s}

\* the orders in which `range` may visit the keys of a Go map
KeyOrders(S) == {p \in [1..Cardinality(S) -> S] : Range(p) = S}

\* ------------------------------------------------- probe.S3Service.Equals
RECURSIVE ReadEndpointsEqualFrom(_, _, _)
ReadEndpointsEqualFrom(a, b, i) ==
    IF i > Len(a) THEN TRUE
    ELSE IF a[i] # b[i] THEN FALSE
    ELSE ReadEndpointsEqualFrom(a, b, i + 1)

\* Equals that compares the replicas as sets
Equals_AnyOrder(s, other) ==
    /\ s.Name = other.Name
    /\ s.Endpoint = other.Endpoint
    /\ s.Gateway = other.Gateway
    /\ Len(s.GatewayReadEnpoints) = Len(other.GatewayReadEnpoints)
    /\ Range(s.GatewayReadEnpoints) = Range(other.GatewayReadEnpoints)

\* Equals that stops at the lengths of the replica lists
Equals_LengthOnly(s, other) ==
    ~ \/ s.Name # other.Name
      \/ s.Endpoint # other.Endpoint
      \/ s.Gateway # other.Gateway
      \/ Len(s.GatewayReadEnpoints) # Len(other.GatewayReadEnpoints)

Equals(s, other) ==
    IF \/ s.Name # other.Name
       \/ s.Endpoint # other.Endpoint
       \/ s.Gateway # other.Gateway
       \/ Len(s.GatewayReadEnpoints) # Len(other.GatewayReadEnpoints)
    THEN FALSE
    ELSE ReadEndpointsEqualFrom(s.GatewayReadEnpoints, other.GatewayReadEnpoints, 1)

\* ------------------------------------------------------ watcher.getSliceDiff
\* mainIndex[name] is the last element of mainSlice carrying that name
MainIndexFound(mainSlice, name) == \E i \in DOMAIN mainSlice : mainSlice[i].Name = name

MainIndex(mainSlice, name) ==
    LET last == CHOOSE i \in DOMAIN mainSlice :
                    /\ mainSlice[i].Name = name
                    /\ \A j \in DOMAIN mainSlice : mainSlice[j].Name = name => j <= i
    IN mainSlice[last]

\* getSliceDiff that keeps the elements found by name, equal or not
getSliceDiff_KeepFound(mainSlice, subSlice) ==
    LET Keep(x) == \/ ~MainIndexFound(mainSlice, x.Name)
                   \/ Equals(MainIndex(mainSlice, x.Name), x)
    IN SelectSeq(subSlice, Keep)

getSliceDiff(mainSlice, subSlice) ==
    LET Keep(x) == \/ ~MainIndexFound(mainSlice, x.Name)
                   \/ ~Equals(MainIndex(mainSlice, x.Name), x)
    IN SelectSeq(subSlice, Keep)

\* the comparison by name only of the first versions of the watcher: a service whose
\* configuration changed is added but not removed
getServicesToModify_RemoveByName(servicesFromConsul, watchedServices) ==
    [servicesToAdd |-> getSliceDiff(watchedServices, servicesFromConsul),
     servicesToRemove |->
         SelectSeq(watchedServices, LAMBDA x : ~MainIndexFound(servicesFromConsul, x.Name))]

getServicesToModify(servicesFromConsul, watchedServices) ==
    [servicesToAdd |-> getSliceDiff(watchedServices, servicesFromConsul),
     servicesToRemove |-> getSliceDiff(servicesFromConsul, watchedServices)]

\* ------------------------------------------------------- probe.newTimer
\* the integer division of Go, which truncates towards zero
Quo(a, b) ==
    LET abs(x) == IF x < 0 THEN -x ELSE x
    IN IF (a < 0) = (b < 0) THEN abs(a) \div abs(b) ELSE -(abs(a) \div abs(b))

\* newTimer without the case of rate 0
newTimer_NoFakeTimer(rate) ==
    [Ticker |-> "running", interval |-> IF rate = 0 THEN 0 ELSE millisecondInMinute \div rate]

\* newTimer: the fake timer for rate 0, else time.NewTicker of millisecondInMinute/rate
\* milliseconds, which panics on an interval that is not positive
newTimer(rate) ==
    IF rate = 0
    THEN [Ticker |-> "nil", interval |-> 0]
    ELSE IF Quo(millisecondInMinute, rate) <= 0
    THEN [Ticker |-> "panic", interval |-> Quo(millisecondInMinute, rate)]
    ELSE [Ticker |-> "running", interval |-> Quo(millisecondInMinute, rate)]

\* timer.Stop
TimerStop(t) ==
    IF t.Ticker # "nil" THEN [t EXCEPT !.Ticker = "stopped"] ELSE t

\* the channel C of a timer delivers ticks only while a real ticker runs
TimerFires(t) == t.Ticker = "running"

\* ---------------------------------------------------------------- state
VARIABLES
    cfg,                \* config.Config: the two rates
    watchedServices,    \* Watcher.watchedServices: name -> [service, probeChan]
    errorCounter,       \* serviceDiscoveryErrorCounter: label -> value
    pc,                 \* position of the WatchPools goroutine
    listFailed,         \* getServices: GetAllMatchingRegisteredServices returned an error
    services,           \* getServices: names returned by the listing
    failedNames,        \* getServices: names whose GetServiceEndPoints failed
    servicesFromConsul, \* WatchPools local
    servicesToAdd,      \* WatchPools local
    servicesToRemove,   \* WatchPools local
    flushIdx,           \* flushOldProbes: loop index (number of elements done)
    removedChans,       \* flushOldProbes: ws.probeChan of each element done
    createIdx,          \* createNewProbes: loop index (number of elements done)
    outcome,            \* createNewProbes: what happened to each element done
    probeChan,          \* createNewProbes / flushOldProbes local channel
    nextChan,           \* identity of the next channel made
    chans,              \* channel id -> [sent, closed]
    probes,             \* channel id -> Probe whose StartProbing was launched
    creationLog,        \* the creations createNewProbes logged as failed in the cycles that are over
    storage,            \* the buckets of the storage endpoints: <<endpoint, bucket>> -> contents
    prep,               \* the call of Probe.PrepareProbing in progress
    prepared,           \* the services whose PrepareProbing has returned nil
    tasks,              \* the bodies of the detached checks that have begun
    s3ExpectedDurabilityItems,  \* gauge s3_expected_durability_items: name -> value
    s3FoundDurabilityItems,     \* gauge s3_found_durability_items: name -> value
    rawDestinations,    \* extractDestinations: the value of gateway_destinations
    extracted           \* extractDestinations: what it returned

vars == <<cfg, watchedServices, errorCounter, pc, listFailed, services, failedNames,
          servicesFromConsul, servicesToAdd, servicesToRemove, flushIdx, removedChans,
          createIdx, outcome, probeChan, nextChan, chans, probes, creationLog,
          storage, prep, prepared, tasks,
          s3ExpectedDurabilityItems, s3FoundDurabilityItems, rawDestinations, extracted>>

\* the storage endpoints and the check bodies, which the reconciliation loop and the
\* scheduling loops do not touch
gaugeVars == <<s3ExpectedDurabilityItems, s3FoundDurabilityItems>>
parseVars == <<rawDestinations, extracted>>
envVars == <<storage, prep, prepared, tasks, gaugeVars, parseVars>>

\* extractDestinations has not been called
NotExtracted == [called |-> FALSE, destinations |-> <<>>, err |-> FALSE]

Kinds == {"latency", "durability", "gateway"}
Labels == Names \cup {"N/A"}
ChanIds == 1..MaxChans

\* config.ParseConfig: the default rates
DefaultConfig == [ProbeRatePerMin |-> 120, DurabilityProbeRatePerMin |-> 1,
                  DurabilityItemTotal |-> MaxItems,
                  LatencyBucketName |-> "monitoring-latency",
                  GatewayBucketName |-> "monitoring-gateway",
                  DurabilityBucketName |-> "monitoring-durability"]

\* no bucket on any endpoint
NoStorage == <<>>

\* no service: the value of a local that holds none
NoService == [Name |-> "", Endpoint |-> "", Gateway |-> FALSE, GatewayReadEnpoints |-> <<>>]

\* the nil error
NoError == [op |-> "", at |-> ""]

\* no call of PrepareProbing in progress
PrepIdle == [pc |-> "idle", service |-> NoService, i |-> 0, err |-> NoError,
             ops |-> <<>>, before |-> NoStorage, faults |-> 0]


\* NewWatcher: nothing is watched yet
InitWith(configs) ==
    /\ cfg \in configs
    /\ watchedServices = <<>>
    /\ errorCounter = [l \in Labels |-> 0]
    /\ pc = "getServices"
    /\ listFailed = FALSE
    /\ services = {}
    /\ failedNames = {}
    /\ servicesFromConsul = <<>>
    /\ servicesToAdd = <<>>
    /\ servicesToRemove = <<>>
    /\ flushIdx = 0
    /\ removedChans = <<>>
    /\ createIdx = 0
    /\ outcome = <<>>
    /\ probeChan = 0
    /\ nextChan = 1
    /\ chans = <<>>
    /\ probes = <<>>
    /\ creationLog = {}
    /\ prep = PrepIdle
    /\ prepared = {}
    /\ tasks = EmptyBag
    /\ s3ExpectedDurabilityItems = <<>>
    /\ s3FoundDurabilityItems = <<>>

\* no gateway_destinations value is being parsed
NotParsing == rawDestinations = <<>> /\ extracted = NotExtracted

Init == InitWith({DefaultConfig}) /\ storage = NoStorage /\ NotParsing

ProbeInit ==
    /\ InitWith({[DefaultConfig EXCEPT !.ProbeRatePerMin = r, !.DurabilityProbeRatePerMin = d] :
                    r \in ProbeRates, d \in DurabilityRates})
    /\ storage = NoStorage
    /\ NotParsing

\* --------------------------------------------------- Watcher.getServices
\* the registries the watcher is run against: the services that may be registered
\* and the metadata they may carry
FullRegistry == [names |-> Names, endpoints |-> Endpoints,
                 gatewayEndpoints |-> {"10.0.0.1"},
                 readEndpointLists |-> ReadEndpointLists]
SmallRegistry == [names |-> {"s1"}, endpoints |-> ValidEndpoints,
                  gatewayEndpoints |-> {"10.0.0.1"},
                  readEndpointLists |-> {<<"r1">>}]

\* what GetAllMatchingRegisteredServices can return without error: name -> isGateway
RegisteredServices(consul) == UNION {[S -> BOOLEAN] : S \in SUBSET consul.names}

\* what GetServiceEndPoints can return for a service
EndPointResults(consul, isGateway) ==
    {[err |-> TRUE, endpoint |-> "", readEndpoints |-> <<>>]}
    \cup
    (IF isGateway
     THEN [err : {FALSE}, endpoint : consul.gatewayEndpoints,
           readEndpoints : consul.readEndpointLists]
     ELSE [err : {FALSE}, endpoint : consul.endpoints, readEndpoints : {<<>>}])

\* an error that is logged but not counted
Inc_NotCounted(counter, label) == counter

\* serviceDiscoveryErrorCounter.WithLabelValues(label).Inc()
Inc(counter, label) == [counter EXCEPT ![label] = @ + 1]

\* the loop of getServices leaving at the first resolution error (break for continue)
RECURSIVE getServicesLoop_Break(_, _, _, _, _)
getServicesLoop_Break(order, registered, resolved, acc, i) ==
    IF i > Len(order) THEN acc
    ELSE LET serviceName == order[i] IN
         IF resolved[serviceName].err
         THEN [acc EXCEPT !.counter = Inc(@, serviceName)]
         ELSE getServicesLoop_Break(order, registered, resolved,
                              [acc EXCEPT !.results = Append(@,
                                  [Name |-> serviceName,
                                   Endpoint |-> resolved[serviceName].endpoint,
                                   Gateway |-> registered[serviceName],
                                   GatewayReadEnpoints |-> resolved[serviceName].readEndpoints])],
                              i + 1)

\* the loop of getServices over the listed services, visited in `order`, from
\* position i on: the results appended and the error counter it leaves
RECURSIVE getServicesLoop(_, _, _, _, _)
getServicesLoop(order, registered, resolved, acc, i) ==
    IF i > Len(order) THEN acc
    ELSE LET serviceName == order[i] IN
         IF resolved[serviceName].err
         THEN getServicesLoop(order, registered, resolved,
                              [acc EXCEPT !.counter = Inc(@, serviceName)], i + 1)
         ELSE getServicesLoop(order, registered, resolved,
                              [acc EXCEPT !.results = Append(@,
                                  [Name |-> serviceName,
                                   Endpoint |-> resolved[serviceName].endpoint,
                                   Gateway |-> registered[serviceName],
                                   GatewayReadEnpoints |-> resolved[serviceName].readEndpoints])],
                              i + 1)

\* the errors counted so far, all labels together
RECURSIVE SumOver(_, _)
SumOver(counter, labels) ==
    IF labels = {} THEN 0
    ELSE LET l == CHOOSE x \in labels : TRUE
         IN counter[l] + SumOver(counter, labels \ {l})

ErrorsCounted(counter) == SumOver(counter, DOMAIN counter)

\* number of channels the cycle will make for these candidates
ChannelsNeeded(results) ==
    Cardinality({i \in DOMAIN results :
                    \/ results[i].Name \notin DOMAIN watchedServices
                    \/ watchedServices[results[i].Name].service # results[i]})

GetServices(consul) ==
    /\ pc = "getServices"
    /\ \E err \in BOOLEAN :
        IF err
        THEN /\ ErrorsCounted(errorCounter) < MaxErrCount
             /\ errorCounter' = Inc(errorCounter, "N/A")
             /\ listFailed' = TRUE
             /\ services' = {}
             /\ failedNames' = {}
             /\ servicesFromConsul' = <<>>
        ELSE \E registered \in RegisteredServices(consul) :
             \E resolved \in [DOMAIN registered -> UNION {EndPointResults(consul, g) : g \in BOOLEAN}] :
             \E order \in KeyOrders(DOMAIN registered) :
                LET failed == {n \in DOMAIN registered : resolved[n].err}
                    done == getServicesLoop(order, registered, resolved,
                                            [results |-> <<>>, counter |-> errorCounter], 1)
                IN
                /\ \A n \in DOMAIN registered : resolved[n] \in EndPointResults(consul, registered[n])
                /\ ErrorsCounted(done.counter) <= MaxErrCount
                /\ ChannelsNeeded(done.results) <= MaxChans + 1 - nextChan
                /\ errorCounter' = done.counter
                /\ listFailed' = FALSE
                /\ services' = DOMAIN registered
                /\ failedNames' = failed
                /\ servicesFromConsul' = done.results
    /\ pc' = "getServicesToModify"
    /\ UNCHANGED <<cfg, watchedServices, servicesToAdd, servicesToRemove, flushIdx,
                   removedChans, createIdx, outcome, probeChan, nextChan, chans, probes,
                   creationLog>>
    /\ UNCHANGED envVars

\* --------------------------------------------- Watcher.getWatchedServices
getWatchedServices(order) == [i \in 1..Len(order) |-> watchedServices[order[i]].service]

\* WatchPools: watchedServices := getWatchedServices(); getServicesToModify(...)
GetServicesToModify ==
    /\ pc = "getServicesToModify"
    /\ \E order \in KeyOrders(DOMAIN watchedServices) :
        LET mod == getServicesToModify(servicesFromConsul, getWatchedServices(order)) IN
        /\ servicesToAdd' = mod.servicesToAdd
        /\ servicesToRemove' = mod.servicesToRemove
    /\ pc' = "flush"
    /\ UNCHANGED <<creationLog, cfg, watchedServices, errorCounter, listFailed, services, failedNames,
                   servicesFromConsul, flushIdx, removedChans, createIdx, outcome,
                   probeChan, nextChan, chans, probes>>
    /\ UNCHANGED envVars

\* ------------------------------------------------- Watcher.flushOldProbes
\* flushOldProbes without the delete: the entry stays in the map
FlushDelete_KeepEntry ==
    /\ pc = "flush"
    /\ flushIdx < Len(servicesToRemove)
    /\ servicesToRemove[flushIdx + 1].Name \in DOMAIN watchedServices
    /\ probeChan' = watchedServices[servicesToRemove[flushIdx + 1].Name].probeChan
    /\ pc' = "flushSend"
    /\ UNCHANGED <<cfg, watchedServices, errorCounter, listFailed, services, failedNames,
                   servicesFromConsul, servicesToAdd, servicesToRemove, flushIdx,
                   removedChans, createIdx, outcome, nextChan, chans, probes, creationLog>>
    /\ UNCHANGED envVars

\* delete(w.watchedServices, name), then the watcher blocks in `ws.probeChan <- false`
FlushDelete ==
    /\ pc = "flush"
    /\ flushIdx < Len(servicesToRemove)
    /\ LET s3service == servicesToRemove[flushIdx + 1] IN
        IF s3service.Name \in DOMAIN watchedServices
        THEN /\ probeChan' = watchedServices[s3service.Name].probeChan
             /\ watchedServices' = [n \in DOMAIN watchedServices \ {s3service.Name} |->
                                      watchedServices[n]]
             /\ pc' = "flushSend"
             /\ UNCHANGED <<flushIdx, removedChans>>
        ELSE /\ flushIdx' = flushIdx + 1
             /\ removedChans' = Append(removedChans, 0)
             /\ UNCHANGED <<probeChan, watchedServices, pc>>
    /\ UNCHANGED <<creationLog, cfg, errorCounter, listFailed, services, failedNames, servicesFromConsul,
                   servicesToAdd, servicesToRemove, createIdx, outcome, nextChan, chans, probes>>
    /\ UNCHANGED envVars

\* the stop case leaving the select only (break for return): the loop goes on
ControlChanReceive_Break ==
    /\ pc = "flushSend"
    /\ probeChan \in DOMAIN probes
    /\ probes[probeChan].state = "running"
    /\ ~chans[probeChan].closed
    /\ chans' = [chans EXCEPT ![probeChan].sent = @ + 1]
    /\ pc' = "flushClose"
    /\ UNCHANGED <<cfg, watchedServices, errorCounter, listFailed, services, failedNames,
                   servicesFromConsul, servicesToAdd, servicesToRemove, flushIdx,
                   removedChans, createIdx, outcome, probeChan, nextChan, probes,
                   creationLog>>
    /\ UNCHANGED envVars

\* the stop case cancelling the checks the probe has launched
ControlChanReceive_CancelChecks ==
    /\ pc = "flushSend"
    /\ probeChan \in DOMAIN probes
    /\ probes[probeChan].state = "running"
    /\ ~chans[probeChan].closed
    /\ chans' = [chans EXCEPT ![probeChan].sent = @ + 1]
    /\ probes' = [probes EXCEPT ![probeChan].state = "returned",
                                ![probeChan].ret = "nil",
                                ![probeChan].tickerProbe = TimerStop(@),
                                ![probeChan].tickerDurabilityProbe = TimerStop(@),
                                ![probeChan].inflight = [k \in Kinds |-> 0]]
    /\ tasks' = [task \in {x \in DOMAIN tasks : x.probe # probeChan} |-> tasks[task]]
    /\ pc' = "flushClose"
    /\ UNCHANGED <<creationLog, cfg, watchedServices, errorCounter, listFailed, services, failedNames,
                   servicesFromConsul, servicesToAdd, servicesToRemove, flushIdx,
                   removedChans, createIdx, outcome, probeChan, nextChan>>
    /\ UNCHANGED <<storage, prep, prepared, gaugeVars, parseVars>>

\* a loop that calls its checks without `go`: it is back at the select, where the
\* stop signal is received, only when no check of the probe is in flight
ControlChanReceive_AfterChecks ==
    /\ pc = "flushSend"
    /\ probeChan \in DOMAIN probes
    /\ probes[probeChan].state = "running"
    /\ \A kind \in Kinds : probes[probeChan].inflight[kind] = 0
    /\ ~chans[probeChan].closed
    /\ chans' = [chans EXCEPT ![probeChan].sent = @ + 1]
    /\ probes' = [probes EXCEPT ![probeChan].state = "returned",
                                ![probeChan].ret = "nil",
                                ![probeChan].tickerProbe = TimerStop(@),
                                ![probeChan].tickerDurabilityProbe = TimerStop(@)]
    /\ pc' = "flushClose"
    /\ UNCHANGED <<creationLog, cfg, watchedServices, errorCounter, listFailed, services, failedNames,
                   servicesFromConsul, servicesToAdd, servicesToRemove, flushIdx,
                   removedChans, createIdx, outcome, probeChan, nextChan>>
    /\ UNCHANGED envVars

\* the probe's select takes `case <-p.controlChan`: the send of the watcher completes,
\* the probe stops both timers and StartProbing returns nil
ControlChanReceive ==
    /\ pc = "flushSend"
    /\ probeChan \in DOMAIN probes
    /\ probes[probeChan].state = "running"
    /\ ~chans[probeChan].closed
    /\ chans' = [chans EXCEPT ![probeChan].sent = @ + 1]
    /\ probes' = [probes EXCEPT ![probeChan].state = "returned",
                                ![probeChan].ret = "nil",
                                ![probeChan].tickerProbe = TimerStop(@),
                                ![probeChan].tickerDurabilityProbe = TimerStop(@)]
    /\ pc' = "flushClose"
    /\ UNCHANGED <<creationLog, cfg, watchedServices, errorCounter, listFailed, services, failedNames,
                   servicesFromConsul, servicesToAdd, servicesToRemove, flushIdx,
                   removedChans, createIdx, outcome, probeChan, nextChan>>
    /\ UNCHANGED envVars

\* close(ws.probeChan) and the next iteration
FlushClose ==
    /\ pc = "flushClose"
    /\ chans' = [chans EXCEPT ![probeChan].closed = TRUE]
    /\ flushIdx' = flushIdx + 1
    /\ removedChans' = Append(removedChans, probeChan)
    /\ pc' = "flush"
    /\ UNCHANGED <<creationLog, cfg, watchedServices, errorCounter, listFailed, services, failedNames,
                   servicesFromConsul, servicesToAdd, servicesToRemove, createIdx, outcome,
                   probeChan, nextChan, probes>>
    /\ UNCHANGED envVars

\* createNewProbes called without waiting for the end of flushOldProbes
FlushReturn_Early ==
    /\ pc = "flush"
    /\ pc' = "create"
    /\ UNCHANGED <<cfg, watchedServices, errorCounter, listFailed, services, failedNames,
                   servicesFromConsul, servicesToAdd, servicesToRemove, flushIdx,
                   removedChans, createIdx, outcome, probeChan, nextChan, chans, probes,
                   creationLog>>
    /\ UNCHANGED envVars

\* flushOldProbes returns, createNewProbes is called
FlushReturn ==
    /\ pc = "flush"
    /\ flushIdx = Len(servicesToRemove)
    /\ pc' = "create"
    /\ UNCHANGED <<creationLog, cfg, watchedServices, errorCounter, listFailed, services, failedNames,
                   servicesFromConsul, servicesToAdd, servicesToRemove, flushIdx,
                   removedChans, createIdx, outcome, probeChan, nextChan, chans, probes>>
    /\ UNCHANGED envVars

\* ------------------------------------------------ Watcher.createNewProbes
\* NewProbe fails exactly when minio.New rejects the endpoint
NewProbeFails(service) == service.Endpoint \notin ValidEndpoints

\* createNewProbes that returns at the first construction error instead of continuing
NewProbeFromConsul_ReturnOnError ==
    /\ pc = "create"
    /\ createIdx < Len(servicesToAdd)
    /\ nextChan <= MaxChans
    /\ probeChan' = nextChan
    /\ nextChan' = nextChan + 1
    /\ chans' = chans @@ (nextChan :> [sent |-> 0, closed |-> FALSE])
    /\ IF NewProbeFails(servicesToAdd[createIdx + 1])
       THEN /\ createIdx' = createIdx + 1
            /\ outcome' = Append(outcome, "newErr")
            /\ pc' = "sleep"
       ELSE /\ pc' = "prepare"
            /\ UNCHANGED <<createIdx, outcome>>
    /\ UNCHANGED <<cfg, watchedServices, errorCounter, listFailed, services, failedNames,
                   servicesFromConsul, servicesToAdd, servicesToRemove, flushIdx,
                   removedChans, probes, creationLog>>
    /\ UNCHANGED envVars

\* probeChan := make(chan bool); p, err := probe.NewProbeFromConsul(...)
NewProbeFromConsul ==
    /\ pc = "create"
    /\ createIdx < Len(servicesToAdd)
    /\ nextChan <= MaxChans
    /\ probeChan' = nextChan
    /\ nextChan' = nextChan + 1
    /\ chans' = chans @@ (nextChan :> [sent |-> 0, closed |-> FALSE])
    /\ IF NewProbeFails(servicesToAdd[createIdx + 1])
       THEN /\ createIdx' = createIdx + 1
            /\ outcome' = Append(outcome, "newErr")
            /\ pc' = "create"
       ELSE /\ pc' = "prepare"
            /\ UNCHANGED <<createIdx, outcome>>
    /\ UNCHANGED <<cfg, watchedServices, errorCounter, listFailed, services, failedNames,
                   servicesFromConsul, servicesToAdd, servicesToRemove, flushIdx,
                   removedChans, probes, creationLog>>
    /\ UNCHANGED envVars

\* prepareGatewayBucket refuses a gateway without destinations; every other
\* result of the preparation depends on the storage endpoints
PrepareCanSucceed(service) == ~service.Gateway \/ Len(service.GatewayReadEnpoints) # 0

\* createNewProbes without the `continue` after close(probeChan): the probe whose
\* preparation failed is registered and started on its closed channel
PrepareProbing_RegisterClosed ==
    /\ pc = "prepare"
    /\ \E err \in BOOLEAN :
        /\ ~err => PrepareCanSucceed(servicesToAdd[createIdx + 1])
        /\ chans' = IF err THEN [chans EXCEPT ![probeChan].closed = TRUE] ELSE chans
        /\ pc' = "register"
        /\ UNCHANGED <<createIdx, outcome>>
    /\ UNCHANGED <<cfg, watchedServices, errorCounter, listFailed, services, failedNames,
                   servicesFromConsul, servicesToAdd, servicesToRemove, flushIdx,
                   removedChans, probeChan, nextChan, probes, creationLog>>
    /\ UNCHANGED envVars

\* err = p.PrepareProbing(); on error close(probeChan) and continue
PrepareProbing ==
    /\ pc = "prepare"
    /\ \E err \in BOOLEAN :
        /\ ~err => PrepareCanSucceed(servicesToAdd[createIdx + 1])
        /\ IF err
           THEN /\ chans' = [chans EXCEPT ![probeChan].closed = TRUE]
                /\ createIdx' = createIdx + 1
                /\ outcome' = Append(outcome, "prepErr")
                /\ pc' = "create"
           ELSE /\ pc' = "register"
                /\ UNCHANGED <<chans, createIdx, outcome>>
    /\ UNCHANGED <<cfg, watchedServices, errorCounter, listFailed, services, failedNames,
                   servicesFromConsul, servicesToAdd, servicesToRemove, flushIdx,
                   removedChans, probeChan, nextChan, probes, creationLog>>
    /\ UNCHANGED envVars

\* probe.NewProbe, and the timers StartProbing makes when it starts
NewProbe(service, controlChan) ==
    [name |-> service.Name,
     gateway |-> service.Gateway,
     endpoint |-> service.Endpoint,
     gatewayEndpoints |-> service.GatewayReadEnpoints,
     probeRatePerMin |-> cfg.ProbeRatePerMin,
     durabilityProbeRatePerMin |-> cfg.DurabilityProbeRatePerMin,
     controlChan |-> controlChan,
     state |-> "running",
     ret |-> "none",
     tickerProbe |-> newTimer(cfg.ProbeRatePerMin),
     tickerDurabilityProbe |-> newTimer(cfg.DurabilityProbeRatePerMin),
     inflight |-> [k \in Kinds |-> 0]]

\* createNewProbes that starts the loop without writing the map entry
Register_StartOnly ==
    /\ pc = "register"
    /\ probes' = probes @@ (probeChan :> NewProbe(servicesToAdd[createIdx + 1], probeChan))
    /\ createIdx' = createIdx + 1
    /\ outcome' = Append(outcome, "started")
    /\ pc' = "create"
    /\ UNCHANGED <<creationLog, cfg, errorCounter, listFailed, services, failedNames, servicesFromConsul,
                   servicesToAdd, servicesToRemove, flushIdx, removedChans, probeChan,
                   nextChan, chans, watchedServices>>
    /\ UNCHANGED envVars

\* w.watchedServices[name] = watchedService{...}; go p.StartProbing()
Register ==
    /\ pc = "register"
    /\ LET s3service == servicesToAdd[createIdx + 1] IN
        /\ watchedServices' =
              [n \in DOMAIN watchedServices \cup {s3service.Name} |->
                 IF n = s3service.Name
                 THEN [service |-> s3service, probeChan |-> probeChan]
                 ELSE watchedServices[n]]
        /\ probes' = probes @@ (probeChan :> NewProbe(s3service, probeChan))
    /\ createIdx' = createIdx + 1
    /\ outcome' = Append(outcome, "started")
    /\ pc' = "create"
    /\ UNCHANGED <<creationLog, cfg, errorCounter, listFailed, services, failedNames, servicesFromConsul,
                   servicesToAdd, servicesToRemove, flushIdx, removedChans, probeChan,
                   nextChan, chans>>
    /\ UNCHANGED envVars

\* createNewProbes returns; WatchPools sleeps
CreateReturn ==
    /\ pc = "create"
    /\ createIdx = Len(servicesToAdd)
    /\ pc' = "sleep"
    /\ UNCHANGED <<creationLog, cfg, watchedServices, errorCounter, listFailed, services, failedNames,
                   servicesFromConsul, servicesToAdd, servicesToRemove, flushIdx,
                   removedChans, createIdx, outcome, probeChan, nextChan, chans, probes>>
    /\ UNCHANGED envVars

\* number of detached check goroutines of a probe that have not returned
InFlight(p) == p.inflight["latency"] + p.inflight["durability"] + p.inflight["gateway"]

\* the probes whose loop has returned and whose detached checks have all returned:
\* nothing refers to them any more
Collected == {c \in DOMAIN probes : probes[c].state = "returned" /\ InFlight(probes[c]) = 0}

\* the channels a watched service or a remaining probe still holds
HeldChans ==
    {watchedServices[n].probeChan : n \in DOMAIN watchedServices}
        \cup (DOMAIN probes \ Collected)

\* time.Sleep(interval) is over: next iteration of WatchPools, locals start afresh;
\* the probes and channels nothing refers to are gone
Sleep ==
    /\ pc = "sleep"
    /\ pc' = "getServices"
    /\ listFailed' = FALSE
    /\ services' = {}
    /\ failedNames' = {}
    /\ servicesFromConsul' = <<>>
    /\ servicesToAdd' = <<>>
    /\ servicesToRemove' = <<>>
    /\ flushIdx' = 0
    /\ removedChans' = <<>>
    /\ createIdx' = 0
    /\ outcome' = <<>>
    /\ probeChan' = 0
    /\ probes' = [c \in DOMAIN probes \ Collected |-> probes[c]]
    /\ chans' = [c \in DOMAIN chans \cap HeldChans |-> chans[c]]
    /\ creationLog' = creationLog \cup
          {[service |-> servicesToAdd[j], result |-> outcome[j]] :
              j \in {i \in DOMAIN outcome : outcome[i] \in {"newErr", "prepErr"}}}
    /\ UNCHANGED <<cfg, watchedServices, errorCounter, nextChan>>
    /\ UNCHANGED envVars

\* --------------------------------------------------- Probe.StartProbing
watcherVars == <<cfg, watchedServices, errorCounter, pc, listFailed, services, failedNames,
                 servicesFromConsul, servicesToAdd, servicesToRemove, flushIdx,
                 removedChans, createIdx, outcome, probeChan, nextChan, chans, creationLog>>

\* the detached checks of all probes that have not returned
RECURSIVE InFlightOver(_)
InFlightOver(cs) ==
    IF cs = {} THEN 0
    ELSE LET c == CHOOSE x \in cs : TRUE
         IN InFlight(probes[c]) + InFlightOver(cs \ {c})

AllInFlight == InFlightOver(DOMAIN probes)

\* the check case calling the check in the loop (no `go`): the trigger is served
\* only when no check of the probe is in flight
TickProbe_Synchronous(c) ==
    /\ c \in DOMAIN probes
    /\ probes[c].state = "running"
    /\ TimerFires(probes[c].tickerProbe)
    /\ InFlight(probes[c]) = 0
    /\ LET kind == IF probes[c].gateway THEN "gateway" ELSE "latency" IN
        /\ AllInFlight < MaxInflight
        /\ probes' = [probes EXCEPT ![c].inflight[kind] = @ + 1]
    /\ UNCHANGED watcherVars
    /\ UNCHANGED envVars

\* case <-tickerProbe.C
TickProbe(c) ==
    /\ c \in DOMAIN probes
    /\ probes[c].state = "running"
    /\ TimerFires(probes[c].tickerProbe)
    /\ LET kind == IF probes[c].gateway THEN "gateway" ELSE "latency" IN
        /\ AllInFlight < MaxInflight
        /\ probes' = [probes EXCEPT ![c].inflight[kind] = @ + 1]
    /\ UNCHANGED watcherVars
    /\ UNCHANGED envVars

\* the durability case without the test of the role
TickDurabilityProbe_AnyRole(c) ==
    /\ c \in DOMAIN probes
    /\ probes[c].state = "running"
    /\ TimerFires(probes[c].tickerDurabilityProbe)
    /\ AllInFlight < MaxInflight
    /\ probes' = [probes EXCEPT ![c].inflight["durability"] = @ + 1]
    /\ UNCHANGED watcherVars
    /\ UNCHANGED envVars

\* case <-tickerDurabilityProbe.C
TickDurabilityProbe(c) ==
    /\ c \in DOMAIN probes
    /\ probes[c].state = "running"
    /\ TimerFires(probes[c].tickerDurabilityProbe)
    /\ IF ~probes[c].gateway
       THEN /\ AllInFlight < MaxInflight
            /\ probes' = [probes EXCEPT ![c].inflight["durability"] = @ + 1]
       ELSE UNCHANGED probes
    /\ UNCHANGED watcherVars
    /\ UNCHANGED envVars

\* a detached performLatencyChecks / performDurabilityChecks / performGatewayChecks returns
CheckReturn(c, kind) ==
    /\ c \in DOMAIN probes
    /\ probes[c].inflight[kind] > 0
    /\ probes' = [probes EXCEPT ![c].inflight[kind] = @ - 1]
    /\ UNCHANGED watcherVars
    /\ UNCHANGED envVars

Next ==
    \/ GetServices(FullRegistry)
    \/ GetServicesToModify
    \/ FlushDelete
    \/ ControlChanReceive
    \/ FlushClose
    \/ FlushReturn
    \/ NewProbeFromConsul
    \/ PrepareProbing
    \/ Register
    \/ CreateReturn
    \/ Sleep

\* the watcher and the life cycle of the probes it starts and stops
Spec == Init /\ [][Next]_vars

ProbeNext ==
    \/ GetServices(SmallRegistry)
    \/ GetServicesToModify
    \/ FlushDelete
    \/ ControlChanReceive
    \/ FlushClose
    \/ FlushReturn
    \/ NewProbeFromConsul
    \/ PrepareProbing
    \/ Register
    \/ CreateReturn
    \/ Sleep
    \/ \E c \in ChanIds : TickProbe(c)
    \/ \E c \in ChanIds : TickDurabilityProbe(c)
    \/ \E c \in ChanIds, kind \in Kinds : CheckReturn(c, kind)

\* the scheduling loops of the probes of one service and their detached checks,
\* under the watcher that starts, stops and restarts them
ProbeSpec == ProbeInit /\ [][ProbeNext]_vars

\* ------------------------------------------- getServicesToModify on its own
\* replica lists that differ in length, in content and in order
DiffReadEndpointLists == {<<"r1">>, <<"r2">>, <<"r1", "r2">>, <<"r2", "r1">>}

\* the targets a watcher can be watching or can be handed by consul
DiffServices ==
    [Name : Names, Endpoint : ValidEndpoints, Gateway : {FALSE}, GatewayReadEnpoints : {<<>>}]
    \cup
    [Name : Names, Endpoint : ValidEndpoints, Gateway : {TRUE},
     GatewayReadEnpoints : DiffReadEndpointLists]

\* slices of targets with pairwise different names, as getServices builds them
DiffSlices ==
    {sl \in UNION {[1..n -> DiffServices] : n \in 0..Cardinality(Names)} :
        \A i, j \in DOMAIN sl : sl[i].Name = sl[j].Name => i = j}

\* WatchPools has the services from consul at hand and is about to compare them
\* with the services it watches, each with its running probe; `watched` lists the
\* watched services in the order their probes were made
DiffInit ==
    /\ cfg = DefaultConfig
    /\ pc = "getServicesToModify"
    /\ servicesFromConsul \in DiffSlices
    /\ \E watched \in DiffSlices :
        /\ watchedServices = [n \in {watched[i].Name : i \in DOMAIN watched} |->
                                LET i == CHOOSE k \in DOMAIN watched : watched[k].Name = n
                                IN [service |-> watched[i], probeChan |-> i]]
        /\ probes = [i \in DOMAIN watched |-> NewProbe(watched[i], i)]
        /\ chans = [i \in DOMAIN watched |-> [sent |-> 0, closed |-> FALSE]]
        /\ creationLog = {}
        /\ nextChan = Len(watched) + 1
    /\ errorCounter = [l \in Labels |-> 0]
    /\ listFailed = FALSE
    /\ services = {servicesFromConsul[i].Name : i \in DOMAIN servicesFromConsul}
    /\ failedNames = {}
    /\ servicesToAdd = <<>>
    /\ servicesToRemove = <<>>
    /\ flushIdx = 0
    /\ removedChans = <<>>
    /\ createIdx = 0
    /\ outcome = <<>>
    /\ probeChan = 0
    /\ storage = NoStorage
    /\ prep = PrepIdle
    /\ prepared = {}
    /\ tasks = EmptyBag
    /\ s3ExpectedDurabilityItems = <<>>
    /\ s3FoundDurabilityItems = <<>>
    /\ rawDestinations = <<>>
    /\ extracted = NotExtracted

DiffNext == GetServicesToModify

DiffSpec == DiffInit /\ [][DiffNext]_vars

\* ------------------------------------------------------ extractDestinations
\* the line feed, which `.` of a regular expression does not match
LF == "\n"

\* the characters of a gateway_destinations value: a letter, the two separators
\* and a line feed
Chars == {"a", ":", ";", LF}

\* the values of gateway_destinations; the empty one is also what rawDestinations
\* holds when no entry has the key
Fields == UNION {[1..n -> Chars] : n \in 0..MaxFieldLen}

\* strings.Split(s, sep)
RECURSIVE Split(_, _)
Split(s, sep) ==
    IF \E i \in DOMAIN s : s[i] = sep
    THEN LET i == CHOOSE k \in DOMAIN s : s[k] = sep /\ \A l \in 1..(k - 1) : s[l] # sep
         IN <<SubSeq(s, 1, i - 1)>> \o Split(SubSeq(s, i + 1, Len(s)), sep)
    ELSE <<s>>

\* what (.*) can match: any characters but line feeds
DotStar(s) == \A i \in DOMAIN s : s[i] # LF

\* regexp.MustCompile("^(.*):(.*)$").FindStringSubmatch(s): the whole match and the
\* two groups, the first group as long as it can be; no element when s does not match
FindStringSubmatch(s) ==
    LET colons == {k \in DOMAIN s : /\ s[k] = ":"
                                    /\ DotStar(SubSeq(s, 1, k - 1))
                                    /\ DotStar(SubSeq(s, k + 1, Len(s)))}
    IN IF colons = {}
       THEN <<>>
       ELSE LET k == CHOOSE c \in colons : \A d \in colons : d <= c
            IN <<s, SubSeq(s, 1, k - 1), SubSeq(s, k + 1, Len(s))>>

\* the loop of extractDestinations that goes past an element it cannot match
RECURSIVE extractFrom_SkipMalformed(_, _, _)
extractFrom_SkipMalformed(rawDestinationList, i, destinations) ==
    IF i > Len(rawDestinationList)
    THEN [called |-> TRUE, destinations |-> destinations, err |-> FALSE]
    ELSE LET match == FindStringSubmatch(rawDestinationList[i])
         IN IF Len(match) < 2
            THEN extractFrom_SkipMalformed(rawDestinationList, i + 1, destinations)
            ELSE extractFrom_SkipMalformed(rawDestinationList, i + 1,
                     Append(destinations, [raw |-> match[1], datacenter |-> match[2],
                                           service |-> match[3]]))

\* the loop of extractDestinations from element i on: the destinations so far are
\* returned with an error at the first element that does not match
RECURSIVE extractFrom(_, _, _)
extractFrom(rawDestinationList, i, destinations) ==
    IF i > Len(rawDestinationList)
    THEN [called |-> TRUE, destinations |-> destinations, err |-> FALSE]
    ELSE LET match == FindStringSubmatch(rawDestinationList[i])
         IN IF Len(match) < 2
            THEN [called |-> TRUE, destinations |-> destinations, err |-> TRUE]
            ELSE extractFrom(rawDestinationList, i + 1,
                     Append(destinations, [raw |-> match[1], datacenter |-> match[2],
                                           service |-> match[3]]))

\* extractDestinations, on the value of gateway_destinations
extractDestinations(raw) == extractFrom(Split(raw, ";"), 1, <<>>)

\* the call of extractDestinations
ExtractDestinations ==
    /\ ~extracted.called
    /\ extracted' = extractDestinations(rawDestinations)
    /\ UNCHANGED <<watcherVars, probes, storage, prep, prepared, tasks, gaugeVars,
                   rawDestinations>>

\* extractGatewayEndoints is about to call extractDestinations on some value
ParseInit ==
    /\ InitWith({DefaultConfig})
    /\ storage = NoStorage
    /\ rawDestinations \in Fields
    /\ extracted = NotExtracted

ParseNext == ExtractDestinations

ParseSpec == ParseInit /\ [][ParseNext]_vars

\* ------------------------------------------ Probe.PrepareProbing, call by call
\* BucketExists, answered by the endpoint
BucketExists(endpoint, bucketName) == <<endpoint, bucketName>> \in DOMAIN storage

\* the storage after a MakeBucket that succeeded
MakeBucket(endpoint, bucketName) ==
    (<<endpoint, bucketName>> :> [objects |-> {}, lifecycle |-> FALSE]) @@ storage

\* the storage after a PutObject that succeeded
PutObject(endpoint, bucketName, objectName) ==
    [storage EXCEPT ![<<endpoint, bucketName>>].objects = @ \cup {objectName}]

\* the storage after a SetBucketLifecycle that succeeded
SetBucketLifecycle(endpoint, bucketName) ==
    [storage EXCEPT ![<<endpoint, bucketName>>].lifecycle = TRUE]

\* the objects a ListObjects that succeeded delivers
ListObjects(endpoint, bucketName) == storage[<<endpoint, bucketName>>].objects

\* objectSuffix + strconv.Itoa(i)
objectName(i) == <<"fake-item-", i>>

\* the results a storage call of the preparation can have: TRUE for an answer,
\* FALSE for an error
CallResults == IF prep.faults < MaxFaults THEN BOOLEAN ELSE {TRUE}

\* the call of PrepareProbing after one more call or counter increment
Logged(p, op, at, bucketName, ok) ==
    [p EXCEPT !.ops = Append(@, [op |-> op, at |-> at, bucket |-> bucketName, ok |-> ok]),
              !.faults = IF ok THEN @ ELSE @ + 1]

\* return err
Failed(p, op, at) == [p EXCEPT !.pc = "done", !.err = [op |-> op, at |-> at]]

\* return nil
Succeeded(p) == [p EXCEPT !.pc = "done"]

prepVars == <<watcherVars, probes, prepared, tasks, gaugeVars, parseVars>>

\* prepareGatewayBucket that loops over the destinations without looking at their number
PrepareStart_NoDestinationCheck ==
    /\ pc = "prepare"
    /\ prep.pc = "idle"
    /\ LET service == servicesToAdd[createIdx + 1]
           started == [PrepIdle EXCEPT !.service = service, !.before = storage]
       IN prep' = IF service.Gateway
                  THEN IF Len(service.GatewayReadEnpoints) = 0
                       THEN Succeeded(started)
                       ELSE [started EXCEPT !.pc = "gatewayBucketExists"]
                  ELSE [started EXCEPT !.pc = "latencyBucketExists"]
    /\ UNCHANGED <<prepVars, storage>>

\* createNewProbes that starts the preparation with `go` and goes on to register
PrepareStart_Detached ==
    /\ pc = "prepare"
    /\ prep.pc = "idle"
    /\ LET service == servicesToAdd[createIdx + 1]
           started == [PrepIdle EXCEPT !.service = service, !.before = storage]
       IN prep' = IF service.Gateway
                  THEN IF Len(service.GatewayReadEnpoints) = 0
                       THEN Failed(started, "prepareGatewayBucket", "")
                       ELSE [started EXCEPT !.pc = "gatewayBucketExists"]
                  ELSE [started EXCEPT !.pc = "latencyBucketExists"]
    /\ pc' = "register"
    /\ UNCHANGED <<cfg, watchedServices, errorCounter, listFailed, services, failedNames,
                   servicesFromConsul, servicesToAdd, servicesToRemove, flushIdx,
                   removedChans, createIdx, outcome, probeChan, nextChan, chans,
                   creationLog, probes, prepared, tasks, storage, gaugeVars, parseVars>>

\* err = p.PrepareProbing(): the call, up to its first storage call
PrepareStart ==
    /\ pc = "prepare"
    /\ prep.pc = "idle"
    /\ LET service == servicesToAdd[createIdx + 1]
           started == [PrepIdle EXCEPT !.service = service, !.before = storage]
       IN prep' = IF service.Gateway
                  THEN IF Len(service.GatewayReadEnpoints) = 0
                       THEN Failed(started, "prepareGatewayBucket", "")
                       ELSE [started EXCEPT !.pc = "gatewayBucketExists"]
                  ELSE [started EXCEPT !.pc = "latencyBucketExists"]
    /\ UNCHANGED <<prepVars, storage>>

\* the destination the loop of prepareGatewayBucket is at
GatewayEndpoint(p) == p.service.GatewayReadEnpoints[p.i + 1]

\* the end of one iteration of the loop of prepareGatewayBucket
GatewayContinue(p) ==
    IF p.i + 1 < Len(p.service.GatewayReadEnpoints)
    THEN [p EXCEPT !.i = @ + 1, !.pc = "gatewayBucketExists"]
    ELSE Succeeded([p EXCEPT !.i = @ + 1])

\* the end of an iteration that failed, in a loop that goes on to the next destination
\* and returns the first error at its end
GatewayContinueAfterError(p, op, at) ==
    LET q == IF p.err = NoError THEN [p EXCEPT !.err = [op |-> op, at |-> at]] ELSE p
    IN IF q.i + 1 < Len(q.service.GatewayReadEnpoints)
       THEN [q EXCEPT !.i = @ + 1, !.pc = "gatewayBucketExists"]
       ELSE [q EXCEPT !.i = @ + 1, !.pc = "done"]

\* prepareGatewayBucket that goes on to the next destination when BucketExists fails
GatewayBucketExists_ContinueOnError ==
    /\ prep.pc = "gatewayBucketExists"
    /\ \E ok \in CallResults :
        LET at == GatewayEndpoint(prep)
            called == Logged(prep, "BucketExists", at, cfg.GatewayBucketName, ok)
        IN prep' = IF ~ok THEN GatewayContinueAfterError(called, "BucketExists", at)
                   ELSE IF BucketExists(at, cfg.GatewayBucketName)
                   THEN GatewayContinue(called)
                   ELSE [Logged(called, "probeGatewayBucketAttempt", at, cfg.GatewayBucketName, TRUE)
                            EXCEPT !.pc = "gatewayMakeBucket"]
    /\ UNCHANGED <<prepVars, storage>>

\* prepareGatewayBucket: BucketExists on the destination the loop is at
GatewayBucketExists ==
    /\ prep.pc = "gatewayBucketExists"
    /\ \E ok \in CallResults :
        LET at == GatewayEndpoint(prep)
            called == Logged(prep, "BucketExists", at, cfg.GatewayBucketName, ok)
        IN prep' = IF ~ok THEN Failed(called, "BucketExists", at)
                   ELSE IF BucketExists(at, cfg.GatewayBucketName)
                   THEN GatewayContinue(called)
                   ELSE [Logged(called, "probeGatewayBucketAttempt", at, cfg.GatewayBucketName, TRUE)
                            EXCEPT !.pc = "gatewayMakeBucket"]
    /\ UNCHANGED <<prepVars, storage>>

\* prepareGatewayBucket: MakeBucket on the destination the loop is at
GatewayMakeBucket ==
    /\ prep.pc = "gatewayMakeBucket"
    /\ \E ok \in CallResults :
        LET at == GatewayEndpoint(prep)
            called == Logged(prep, "MakeBucket", at, cfg.GatewayBucketName, ok)
        IN IF ok
           THEN /\ storage' = MakeBucket(at, cfg.GatewayBucketName)
                /\ prep' = [called EXCEPT !.pc = "gatewaySetBucketLifecycle"]
           ELSE /\ prep' = Failed(called, "MakeBucket", at)
                /\ UNCHANGED storage
    /\ UNCHANGED prepVars

\* prepareGatewayBucket: setBucketLifecycle1d, whose error is dropped
GatewaySetBucketLifecycle ==
    /\ prep.pc = "gatewaySetBucketLifecycle"
    /\ \E ok \in CallResults :
        LET at == GatewayEndpoint(prep)
            called == Logged(prep, "SetBucketLifecycle", at, cfg.GatewayBucketName, ok)
        IN /\ storage' = IF ok THEN SetBucketLifecycle(at, cfg.GatewayBucketName) ELSE storage
           /\ prep' = GatewayContinue(called)
    /\ UNCHANGED prepVars

\* prepareLatencyBucket whose BucketExists error is kept while PrepareProbing goes on
\* to the durability bucket
LatencyBucketExists_ContinueOnError ==
    /\ prep.pc = "latencyBucketExists"
    /\ \E ok \in CallResults :
        LET at == prep.service.Endpoint
            called == Logged(prep, "BucketExists", at, cfg.LatencyBucketName, ok)
        IN prep' = IF ~ok THEN [called EXCEPT !.pc = "durabilityBucketExists",
                                              !.err = [op |-> "BucketExists", at |-> at]]
                   ELSE IF BucketExists(at, cfg.LatencyBucketName)
                   THEN [called EXCEPT !.pc = "durabilityBucketExists"]
                   ELSE [Logged(called, "probeBucketAttempt", at, cfg.LatencyBucketName, TRUE)
                            EXCEPT !.pc = "latencyMakeBucket"]
    /\ UNCHANGED <<prepVars, storage>>

\* prepareLatencyBucket: BucketExists
LatencyBucketExists ==
    /\ prep.pc = "latencyBucketExists"
    /\ \E ok \in CallResults :
        LET at == prep.service.Endpoint
            called == Logged(prep, "BucketExists", at, cfg.LatencyBucketName, ok)
        IN prep' = IF ~ok THEN Failed(called, "BucketExists", at)
                   ELSE IF BucketExists(at, cfg.LatencyBucketName)
                   THEN [called EXCEPT !.pc = "durabilityBucketExists"]
                   ELSE [Logged(called, "probeBucketAttempt", at, cfg.LatencyBucketName, TRUE)
                            EXCEPT !.pc = "latencyMakeBucket"]
    /\ UNCHANGED <<prepVars, storage>>

\* prepareLatencyBucket: MakeBucket
LatencyMakeBucket ==
    /\ prep.pc = "latencyMakeBucket"
    /\ \E ok \in CallResults :
        LET at == prep.service.Endpoint
            called == Logged(prep, "MakeBucket", at, cfg.LatencyBucketName, ok)
        IN IF ok
           THEN /\ storage' = MakeBucket(at, cfg.LatencyBucketName)
                /\ prep' = [called EXCEPT !.pc = "latencySetBucketLifecycle"]
           ELSE /\ prep' = Failed(called, "MakeBucket", at)
                /\ UNCHANGED storage
    /\ UNCHANGED prepVars

\* prepareLatencyBucket: setBucketLifecycle1d, whose error is dropped
LatencySetBucketLifecycle ==
    /\ prep.pc = "latencySetBucketLifecycle"
    /\ \E ok \in CallResults :
        LET at == prep.service.Endpoint
            called == Logged(prep, "SetBucketLifecycle", at, cfg.LatencyBucketName, ok)
        IN /\ storage' = IF ok THEN SetBucketLifecycle(at, cfg.LatencyBucketName) ELSE storage
           /\ prep' = [called EXCEPT !.pc = "durabilityBucketExists"]
    /\ UNCHANGED prepVars

\* the start of the seeding loop: probeBucketAttempt.Inc(), i := 0
Seeding(p) ==
    LET q == [Logged(p, "probeBucketAttempt", p.service.Endpoint,
                     cfg.DurabilityBucketName, TRUE) EXCEPT !.i = 0]
    IN IF 0 < cfg.DurabilityItemTotal THEN [q EXCEPT !.pc = "durabilityPutObject"]
       ELSE Succeeded(q)

\* prepareDurabilityBucket of the first versions: an existing bucket is left as it is
DurabilityBucketExists_ReturnIfExists ==
    /\ prep.pc = "durabilityBucketExists"
    /\ \E ok \in CallResults :
        LET at == prep.service.Endpoint
            called == Logged(prep, "BucketExists", at, cfg.DurabilityBucketName, ok)
        IN prep' = IF ~ok THEN Failed(called, "BucketExists", at)
                   ELSE IF BucketExists(at, cfg.DurabilityBucketName)
                   THEN Succeeded(called)
                   ELSE [called EXCEPT !.pc = "durabilityMakeBucket"]
    /\ UNCHANGED <<prepVars, storage>>

\* prepareDurabilityBucket: BucketExists
DurabilityBucketExists ==
    /\ prep.pc = "durabilityBucketExists"
    /\ \E ok \in CallResults :
        LET at == prep.service.Endpoint
            called == Logged(prep, "BucketExists", at, cfg.DurabilityBucketName, ok)
        IN prep' = IF ~ok THEN Failed(called, "BucketExists", at)
                   ELSE IF BucketExists(at, cfg.DurabilityBucketName)
                   THEN [called EXCEPT !.pc = "durabilityListObjects"]
                   ELSE [called EXCEPT !.pc = "durabilityMakeBucket"]
    /\ UNCHANGED <<prepVars, storage>>

\* checkDurabilityBucketHasEnoughObject with a strict comparison
checkDurabilityBucketHasEnoughObject_Strict(countObj, durabilityItemTotal) ==
    countObj > durabilityItemTotal

\* checkDurabilityBucketHasEnoughObject, once the listing has been counted
checkDurabilityBucketHasEnoughObject(countObj, durabilityItemTotal) ==
    countObj >= durabilityItemTotal

\* prepareDurabilityBucket: the listing of checkDurabilityBucketHasEnoughObject
DurabilityListObjects ==
    /\ prep.pc = "durabilityListObjects"
    /\ \E ok \in CallResults :
        LET at == prep.service.Endpoint
            called == Logged(prep, "ListObjects", at, cfg.DurabilityBucketName, ok)
            countObj == Cardinality(ListObjects(at, cfg.DurabilityBucketName))
        IN prep' = IF ~ok THEN Failed(called, "ListObjects", at)
                   ELSE IF checkDurabilityBucketHasEnoughObject(countObj, cfg.DurabilityItemTotal)
                   THEN Succeeded(called)
                   ELSE Seeding(called)
    /\ UNCHANGED <<prepVars, storage>>

\* prepareDurabilityBucket: MakeBucket
DurabilityMakeBucket ==
    /\ prep.pc = "durabilityMakeBucket"
    /\ \E ok \in CallResults :
        LET at == prep.service.Endpoint
            called == Logged(prep, "MakeBucket", at, cfg.DurabilityBucketName, ok)
        IN IF ok
           THEN /\ storage' = MakeBucket(at, cfg.DurabilityBucketName)
                /\ prep' = Seeding(called)
           ELSE /\ prep' = Failed(called, "MakeBucket", at)
                /\ UNCHANGED storage
    /\ UNCHANGED prepVars

\* prepareDurabilityBucket with a seeding loop that goes on to the next item after
\* a failed write
DurabilityPutObject_SkipOnError ==
    /\ prep.pc = "durabilityPutObject"
    /\ \E ok \in CallResults :
        LET at == prep.service.Endpoint
            called == Logged(prep, "PutObject", at, cfg.DurabilityBucketName, ok)
        IN /\ storage' = IF ok
                         THEN PutObject(at, cfg.DurabilityBucketName, objectName(prep.i))
                         ELSE storage
           /\ prep' = IF prep.i + 1 < cfg.DurabilityItemTotal
                      THEN [called EXCEPT !.i = @ + 1]
                      ELSE Succeeded([called EXCEPT !.i = @ + 1])
    /\ UNCHANGED prepVars

\* prepareDurabilityBucket: PutObject of item i, tried again until it succeeds
DurabilityPutObject ==
    /\ prep.pc = "durabilityPutObject"
    /\ \E ok \in CallResults :
        LET at == prep.service.Endpoint
            called == Logged(prep, "PutObject", at, cfg.DurabilityBucketName, ok)
        IN IF ok
           THEN /\ storage' = PutObject(at, cfg.DurabilityBucketName, objectName(prep.i))
                /\ prep' = IF prep.i + 1 < cfg.DurabilityItemTotal
                           THEN [called EXCEPT !.i = @ + 1]
                           ELSE Succeeded([called EXCEPT !.i = @ + 1])
           ELSE /\ prep' = called
                /\ UNCHANGED storage
    /\ UNCHANGED prepVars

\* createNewProbes that registers and starts the probe whatever PrepareProbing returned
PrepareReturn_RegisterOnError ==
    /\ pc = "prepare"
    /\ prep.pc = "done"
    /\ pc' = "register"
    /\ prepared' = IF prep.err = NoError THEN prepared \cup {prep.service} ELSE prepared
    /\ prep' = PrepIdle
    /\ UNCHANGED <<cfg, watchedServices, errorCounter, listFailed, services, failedNames,
                   servicesFromConsul, servicesToAdd, servicesToRemove, flushIdx,
                   removedChans, probeChan, nextChan, probes, creationLog,
                   chans, createIdx, outcome>>
    /\ UNCHANGED <<storage, tasks, gaugeVars, parseVars>>

\* createNewProbes: what it does with the result of PrepareProbing
PrepareReturn ==
    /\ pc = "prepare"
    /\ prep.pc = "done"
    /\ IF prep.err # NoError
       THEN /\ chans' = [chans EXCEPT ![probeChan].closed = TRUE]
            /\ createIdx' = createIdx + 1
            /\ outcome' = Append(outcome, "prepErr")
            /\ pc' = "create"
            /\ UNCHANGED prepared
       ELSE /\ pc' = "register"
            /\ prepared' = prepared \cup {prep.service}
            /\ UNCHANGED <<chans, createIdx, outcome>>
    /\ prep' = PrepIdle
    /\ UNCHANGED <<cfg, watchedServices, errorCounter, listFailed, services, failedNames,
                   servicesFromConsul, servicesToAdd, servicesToRemove, flushIdx,
                   removedChans, probeChan, nextChan, probes, creationLog>>
    /\ UNCHANGED <<storage, tasks, gaugeVars, parseVars>>

\* the registry and the storage the preparation is run against: one service, simple
\* or gateway, the gateway with no destination or with two
PrepRegistry == [names |-> {"s1"}, endpoints |-> {"10.0.0.1"},
                 gatewayEndpoints |-> {"10.0.0.1"},
                 readEndpointLists |-> {<<>>, <<"r1", "r2">>}]

\* buckets left by an earlier run of the probe: the durability bucket holds fewer
\* objects than it is seeded with, one destination has its gateway bucket
PartialStorage ==
    [k \in {<<"10.0.0.1", DefaultConfig.LatencyBucketName>>,
            <<"10.0.0.1", DefaultConfig.DurabilityBucketName>>,
            <<"r1", DefaultConfig.GatewayBucketName>>} |->
        [objects |-> IF k[2] = DefaultConfig.DurabilityBucketName THEN {objectName(0)} ELSE {},
         lifecycle |-> FALSE]]

PrepareInit == InitWith({DefaultConfig}) /\ storage \in {NoStorage, PartialStorage} /\ NotParsing

PrepareNext ==
    \/ GetServices(PrepRegistry)
    \/ GetServicesToModify
    \/ FlushDelete
    \/ ControlChanReceive
    \/ FlushClose
    \/ FlushReturn
    \/ NewProbeFromConsul
    \/ PrepareStart
    \/ GatewayBucketExists
    \/ GatewayMakeBucket
    \/ GatewaySetBucketLifecycle
    \/ LatencyBucketExists
    \/ LatencyMakeBucket
    \/ LatencySetBucketLifecycle
    \/ DurabilityBucketExists
    \/ DurabilityListObjects
    \/ DurabilityMakeBucket
    \/ DurabilityPutObject
    \/ PrepareReturn
    \/ Register
    \/ CreateReturn
    \/ Sleep

\* the watcher with the preparation of each probe it creates carried out call by
\* call against the storage endpoints
PrepareSpec == PrepareInit /\ [][PrepareNext]_vars

\* ------------------------------------------- the bodies of the detached checks
\* the values of randomHex(20), numbered; 0 stands for no object
ObjectNames == 1..MaxTasks

\* randomHex(20) returns a name that no check in progress is using; the code never
\* looks into a name, so the least unused one stands for any of them
randomHex == CHOOSE n \in ObjectNames \ {x.objectName : x \in BagToSet(tasks)} :
                 \A m \in ObjectNames \ {x.objectName : x \in BagToSet(tasks)} : n <= m

\* the steps of performLatencyChecks, in the order of the code
LatencyOps == <<"list_buckets", "put_object", "get_object", "remove_object">>

\* the number of checks of probe c of one kind whose body has begun
TasksOf(c, kind) ==
    BagCardinality([task \in {x \in BagToSet(tasks) : x.probe = c /\ x.kind = kind} |->
                       CopiesIn(task, tasks)])

\* the checks in progress with one of them gone on to its next state
Stepped(task, next) == (tasks (-) SetToBag({task})) (+) SetToBag({next})

\* the first statement of each body that calls the storage
FirstOp(kind) ==
    CASE kind = "latency" -> "list_buckets"
      [] kind = "durability" -> "list_objects"
      [] kind = "gateway" -> "gateway_put_object"

checkVars == <<watcherVars, storage, prep, prepared, gaugeVars, parseVars>>

\* a goroutine launched by `go p.perform...Checks()` begins its body: objectName, _ :=
\* randomHex(20)
GoCheck(c, kind) ==
    /\ c \in DOMAIN probes
    /\ probes[c].inflight[kind] > TasksOf(c, kind)
    /\ BagCardinality(tasks) < MaxTasks
    /\ tasks' = tasks (+) SetToBag({[probe |-> c, kind |-> kind,
                                      objectName |-> IF kind = "durability" THEN 0 ELSE randomHex,
                                      pc |-> FirstOp(kind), i |-> 0, ops |-> <<>>,
                                      err |-> FALSE]})
    /\ UNCHANGED <<checkVars, probes>>

\* the counters of a call with the success counter incremented when the call is
\* made and the total counter when it has ended without error
Increments_SuccessFirst(op, ok) ==
    CASE op \in {"gateway_get_object", "gateway_remove_object"} ->
            <<"s3GatewaySuccessCounter">> \o (IF ok THEN <<"s3GatewayTotalCounter">> ELSE <<>>)
      [] op = "list_objects" -> <<>>
      [] OTHER -> <<"s3SuccessCounter">> \o (IF ok THEN <<"s3TotalCounter">> ELSE <<>>)

\* the counters incremented around a call: mesureOperation counts every call in
\* s3TotalCounter and a call without error in s3SuccessCounter; the gets and removes
\* of the gateway check are counted per gateway endpoint in s3GatewayTotalCounter
\* and, without error, in s3GatewaySuccessCounter; the listing is not counted. The
\* increments are in the order in which the code makes them
Increments(op, ok) ==
    CASE op \in {"gateway_get_object", "gateway_remove_object"} ->
            <<"s3GatewayTotalCounter">> \o (IF ok THEN <<"s3GatewaySuccessCounter">> ELSE <<>>)
      [] op = "list_objects" -> <<>>
      [] OTHER -> <<"s3TotalCounter">> \o (IF ok THEN <<"s3SuccessCounter">> ELSE <<>>)

\* the deadline of the context a call is made with: mesureOperation makes one of
\* latencyTimeout, performDurabilityChecks one of durabilityTimeout; the gets and
\* the removes of the gateway check are called with context.Background()
Deadline(op) ==
    CASE op \in {"gateway_get_object", "gateway_remove_object"} -> "none"
      [] op = "list_objects" -> "durabilityTimeout"
      [] OTHER -> "latencyTimeout"

\* the check after a call: the operation, where it went, on which object, how it
\* ended, the deadline it was made with, and the counters incremented for it with the labels of the operation, the
\* name of the probe and, for the gateway counters, the endpoint
Called(task, at, name, ok) ==
    [task EXCEPT !.ops = Append(@, [op |-> task.pc, at |-> at, objectName |-> name, ok |-> ok,
                                    inc |-> Increments(task.pc, ok),
                                    deadline |-> Deadline(task.pc)])]

\* the object name of a step: list_buckets names none
StepObject(task) == IF task.pc = "list_buckets" THEN 0 ELSE task.objectName

\* performLatencyChecks that goes on to the next step when one has failed
LatencyStep_ContinueOnError(task) ==
    /\ BagIn(task, tasks)
    /\ task.kind = "latency"
    /\ task.pc \in Range(LatencyOps)
    /\ \E ok \in BOOLEAN :
        LET called == Called(task, probes[task.probe].endpoint, StepObject(task), ok)
            n == Len(called.ops)
        IN tasks' = Stepped(task,
                        IF n < Len(LatencyOps)
                        THEN [called EXCEPT !.pc = LatencyOps[n + 1], !.err = @ \/ ~ok]
                        ELSE [called EXCEPT !.pc = "returned", !.err = @ \/ ~ok])
    /\ UNCHANGED <<checkVars, probes>>

\* performLatencyChecks whose error stops the loop that launched it
LatencyStep_FatalOnError(task) ==
    /\ BagIn(task, tasks)
    /\ task.kind = "latency"
    /\ task.pc \in Range(LatencyOps)
    /\ \E ok \in BOOLEAN :
        LET called == Called(task, probes[task.probe].endpoint, StepObject(task), ok)
            n == Len(called.ops)
        IN /\ tasks' = Stepped(task,
                          IF ~ok THEN [called EXCEPT !.pc = "returned", !.err = TRUE]
                          ELSE IF n < Len(LatencyOps) THEN [called EXCEPT !.pc = LatencyOps[n + 1]]
                          ELSE [called EXCEPT !.pc = "returned"])
           /\ probes' = IF ok THEN probes
                        ELSE [probes EXCEPT ![task.probe].state = "returned",
                                            ![task.probe].tickerProbe = TimerStop(@),
                                            ![task.probe].tickerDurabilityProbe = TimerStop(@)]
    /\ UNCHANGED checkVars

\* performLatencyChecks: one mesureOperation, which ends with nil, with the error of
\* the call or with the deadline of latencyTimeout exceeded; `return err` on error,
\* the next step or `return nil` otherwise
LatencyStep(task) ==
    /\ BagIn(task, tasks)
    /\ task.kind = "latency"
    /\ task.pc \in Range(LatencyOps)
    /\ \E ok \in BOOLEAN :
        LET called == Called(task, probes[task.probe].endpoint, StepObject(task), ok)
            n == Len(called.ops)
        IN tasks' = Stepped(task,
                        IF ~ok THEN [called EXCEPT !.pc = "returned", !.err = TRUE]
                        ELSE IF n < Len(LatencyOps) THEN [called EXCEPT !.pc = LatencyOps[n + 1]]
                        ELSE [called EXCEPT !.pc = "returned"])
    /\ UNCHANGED <<checkVars, probes>>

\* the gauge with the value of one name set
GaugeSet(gauge, name, value) == (name :> value) @@ gauge

\* the results the ListObjects of the durability check can have: FALSE for an
\* object with Err (the bucket is not there, the endpoint fails, the deadline of
\* durabilityTimeout is exceeded), TRUE for a listing that reaches its end
ListResults(endpoint, bucketName) ==
    IF BucketExists(endpoint, bucketName) THEN BOOLEAN ELSE {FALSE}

\* performDurabilityChecks that leaves the expected gauge alone
DurabilityStep_NoExpected(task) ==
    /\ BagIn(task, tasks)
    /\ task.kind = "durability"
    /\ task.pc = "list_objects"
    /\ \E ok \in ListResults(probes[task.probe].endpoint, cfg.DurabilityBucketName) :
        LET called == Called(task, probes[task.probe].endpoint, 0, ok)
        IN /\ tasks' = Stepped(task, [called EXCEPT !.pc = "returned", !.err = ~ok])
           /\ s3FoundDurabilityItems' =
                 IF ok
                 THEN GaugeSet(s3FoundDurabilityItems, probes[task.probe].name,
                               Cardinality(ListObjects(probes[task.probe].endpoint,
                                                       cfg.DurabilityBucketName)))
                 ELSE s3FoundDurabilityItems
    /\ UNCHANGED <<watcherVars, storage, prep, prepared, parseVars, probes,
                   s3ExpectedDurabilityItems>>

\* performDurabilityChecks that sets the found gauge to the objects counted before
\* the error
DurabilityStep_FoundOnError(task) ==
    /\ BagIn(task, tasks)
    /\ task.kind = "durability"
    /\ task.pc = "list_objects"
    /\ s3ExpectedDurabilityItems' =
          GaugeSet(s3ExpectedDurabilityItems, probes[task.probe].name, cfg.DurabilityItemTotal)
    /\ \E ok \in ListResults(probes[task.probe].endpoint, cfg.DurabilityBucketName) :
        LET called == Called(task, probes[task.probe].endpoint, 0, ok)
        IN /\ tasks' = Stepped(task, [called EXCEPT !.pc = "returned", !.err = ~ok])
           /\ s3FoundDurabilityItems' =
                 GaugeSet(s3FoundDurabilityItems, probes[task.probe].name,
                          IF ok
                          THEN Cardinality(ListObjects(probes[task.probe].endpoint,
                                                       cfg.DurabilityBucketName))
                          ELSE 0)
    /\ UNCHANGED <<watcherVars, storage, prep, prepared, parseVars, probes>>

\* performDurabilityChecks: the expected gauge is set, then the bucket is listed;
\* an object with Err ends the check with that error, a listing that reaches its
\* end sets the found gauge to the number of objects
DurabilityStep(task) ==
    /\ BagIn(task, tasks)
    /\ task.kind = "durability"
    /\ task.pc = "list_objects"
    /\ s3ExpectedDurabilityItems' =
          GaugeSet(s3ExpectedDurabilityItems, probes[task.probe].name, cfg.DurabilityItemTotal)
    /\ \E ok \in ListResults(probes[task.probe].endpoint, cfg.DurabilityBucketName) :
        LET called == Called(task, probes[task.probe].endpoint, 0, ok)
        IN /\ tasks' = Stepped(task, [called EXCEPT !.pc = "returned", !.err = ~ok])
           /\ s3FoundDurabilityItems' =
                 IF ok
                 THEN GaugeSet(s3FoundDurabilityItems, probes[task.probe].name,
                               Cardinality(ListObjects(probes[task.probe].endpoint,
                                                       cfg.DurabilityBucketName)))
                 ELSE s3FoundDurabilityItems
    /\ UNCHANGED <<watcherVars, storage, prep, prepared, parseVars, probes>>

\* the results of the one obj.Read of the gateway check: the end of the stream, an
\* error, or data without error, on which the loop `for _, err = obj.Read(data); err
\* == nil; {}` spins for ever
ReadResults == {"EOF", "error", "data"}

\* the results of RemoveObject
RemoveResults == {"nil", "error"}

\* a call to an endpoint that never answers: under a context with a deadline it
\* ends with the error of the deadline; under context.Background() it does not end
Unanswered == "none"

\* where a check that makes no further step is: in the read loop, or in a call
\* without deadline that is not answered
Stuck == {"spinning", "waiting"}

\* the next iteration of the loop over the gateway endpoints, or return nil
GatewayLoop(task) ==
    IF task.i + 1 < Len(probes[task.probe].gatewayEndpoints)
    THEN [task EXCEPT !.i = @ + 1, !.pc = "gateway_get_object"]
    ELSE [task EXCEPT !.i = @ + 1, !.pc = "returned"]

\* performGatewayChecks that logs the error of the put and goes on to the gateway
\* endpoints
GatewayStep_ContinueAfterPut(task) ==
    /\ BagIn(task, tasks)
    /\ task.kind = "gateway"
    /\ task.pc \in {"gateway_put_object", "gateway_get_object", "gateway_remove_object"}
    /\ LET p == probes[task.probe]
       IN CASE task.pc = "gateway_put_object" ->
                 \E ok \in BOOLEAN :
                    LET called == Called(task, p.endpoint, task.objectName, ok) IN
                    tasks' = Stepped(task,
                                IF Len(p.gatewayEndpoints) = 0
                                THEN [called EXCEPT !.pc = "returned", !.err = ~ok]
                                ELSE [called EXCEPT !.pc = "gateway_get_object", !.err = ~ok])
            [] task.pc = "gateway_get_object" ->
                 \E read \in ReadResults \cup {Unanswered} :
                    LET called == Called(task, p.gatewayEndpoints[task.i + 1],
                                         task.objectName, read = "EOF") IN
                    tasks' = Stepped(task,
                                IF read = Unanswered THEN [called EXCEPT !.pc = "waiting"]
                                ELSE IF read = "data" THEN [called EXCEPT !.pc = "spinning"]
                                ELSE [called EXCEPT !.pc = "gateway_remove_object"])
            [] task.pc = "gateway_remove_object" ->
                 \E err \in RemoveResults \cup {Unanswered} :
                    LET called == Called(task, p.gatewayEndpoints[task.i + 1],
                                         task.objectName, err = "nil") IN
                    tasks' = Stepped(task,
                                IF err = Unanswered THEN [called EXCEPT !.pc = "waiting"]
                                ELSE GatewayLoop(called))
    /\ UNCHANGED <<checkVars, probes>>

\* performGatewayChecks that returns the error of a get or of a remove
GatewayStep_ReturnOnError(task) ==
    /\ BagIn(task, tasks)
    /\ task.kind = "gateway"
    /\ task.pc \in {"gateway_put_object", "gateway_get_object", "gateway_remove_object"}
    /\ LET p == probes[task.probe]
       IN CASE task.pc = "gateway_put_object" ->
                 \E ok \in BOOLEAN :
                    LET called == Called(task, p.endpoint, task.objectName, ok) IN
                    tasks' = Stepped(task,
                                IF ~ok THEN [called EXCEPT !.pc = "returned", !.err = TRUE]
                                ELSE IF Len(p.gatewayEndpoints) = 0
                                THEN [called EXCEPT !.pc = "returned"]
                                ELSE [called EXCEPT !.pc = "gateway_get_object"])
            [] task.pc = "gateway_get_object" ->
                 \E read \in ReadResults \cup {Unanswered} :
                    LET called == Called(task, p.gatewayEndpoints[task.i + 1],
                                         task.objectName, read = "EOF") IN
                    tasks' = Stepped(task,
                                IF read = Unanswered THEN [called EXCEPT !.pc = "waiting"]
                                ELSE IF read = "data" THEN [called EXCEPT !.pc = "spinning"]
                                ELSE IF read = "error"
                                THEN [called EXCEPT !.pc = "returned", !.err = TRUE]
                                ELSE [called EXCEPT !.pc = "gateway_remove_object"])
            [] task.pc = "gateway_remove_object" ->
                 \E err \in RemoveResults \cup {Unanswered} :
                    LET called == Called(task, p.gatewayEndpoints[task.i + 1],
                                         task.objectName, err = "nil") IN
                    tasks' = Stepped(task,
                                IF err = Unanswered THEN [called EXCEPT !.pc = "waiting"]
                                ELSE IF err = "error"
                                THEN [called EXCEPT !.pc = "returned", !.err = TRUE]
                                ELSE GatewayLoop(called))
    /\ UNCHANGED <<checkVars, probes>>

\* performGatewayChecks: the put through the gateway, whose error is returned, then
\* for each gateway endpoint the get and the remove, whose errors are logged; the
\* get and the remove are called with context.Background()
GatewayStep(task) ==
    /\ BagIn(task, tasks)
    /\ task.kind = "gateway"
    /\ task.pc \in {"gateway_put_object", "gateway_get_object", "gateway_remove_object"}
    /\ LET p == probes[task.probe]
       IN CASE task.pc = "gateway_put_object" ->
                 \E ok \in BOOLEAN :
                    LET called == Called(task, p.endpoint, task.objectName, ok) IN
                    tasks' = Stepped(task,
                                IF ~ok THEN [called EXCEPT !.pc = "returned", !.err = TRUE]
                                ELSE IF Len(p.gatewayEndpoints) = 0
                                THEN [called EXCEPT !.pc = "returned"]
                                ELSE [called EXCEPT !.pc = "gateway_get_object"])
            [] task.pc = "gateway_get_object" ->
                 \E read \in ReadResults \cup {Unanswered} :
                    LET called == Called(task, p.gatewayEndpoints[task.i + 1],
                                         task.objectName, read = "EOF") IN
                    tasks' = Stepped(task,
                                IF read = Unanswered THEN [called EXCEPT !.pc = "waiting"]
                                ELSE IF read = "data" THEN [called EXCEPT !.pc = "spinning"]
                                ELSE [called EXCEPT !.pc = "gateway_remove_object"])
            [] task.pc = "gateway_remove_object" ->
                 \E err \in RemoveResults \cup {Unanswered} :
                    LET called == Called(task, p.gatewayEndpoints[task.i + 1],
                                         task.objectName, err = "nil") IN
                    tasks' = Stepped(task,
                                IF err = Unanswered THEN [called EXCEPT !.pc = "waiting"]
                                ELSE GatewayLoop(called))
    /\ UNCHANGED <<checkVars, probes>>

\* a check that takes the entry of its probe out of the map when it ends
CheckExit_Unregister(task) ==
    /\ BagIn(task, tasks)
    /\ task.pc = "returned"
    /\ tasks' = tasks (-) SetToBag({task})
    /\ probes' = [probes EXCEPT ![task.probe].inflight[task.kind] = @ - 1]
    /\ watchedServices' = [n \in {k \in DOMAIN watchedServices :
                                     watchedServices[k].probeChan # task.probe} |->
                             watchedServices[n]]
    /\ UNCHANGED <<cfg, errorCounter, pc, listFailed, services, failedNames,
                   servicesFromConsul, servicesToAdd, servicesToRemove, flushIdx,
                   removedChans, createIdx, outcome, probeChan, nextChan, chans,
                   creationLog, storage, prep, prepared, gaugeVars, parseVars>>

\* the goroutine of a check that has returned ends; its result is dropped
CheckExit(task) ==
    /\ BagIn(task, tasks)
    /\ task.pc = "returned"
    /\ tasks' = tasks (-) SetToBag({task})
    /\ probes' = [probes EXCEPT ![task.probe].inflight[task.kind] = @ - 1]
    /\ UNCHANGED checkVars

\* the registry the checks are run against: one service at one address, simple or
\* gateway with one gateway endpoint
CheckRegistry == [names |-> {"s1"}, endpoints |-> {"10.0.0.1"},
                  gatewayEndpoints |-> {"10.0.0.1"},
                  readEndpointLists |-> {<<"r1">>}]

\* every goroutine launched so far has begun its body
NonePending == AllInFlight = BagCardinality(tasks)

\* every goroutine launched so far has begun its body, and every body that has
\* begun has returned
NoneWaiting ==
    /\ NonePending
    /\ \A task \in BagToSet(tasks) : task.pc = "returned"

\* buckets left by an earlier run of the probe that prepared them in full
SeededStorage ==
    [k \in {<<"10.0.0.1", DefaultConfig.LatencyBucketName>>,
            <<"10.0.0.1", DefaultConfig.DurabilityBucketName>>,
            <<"r1", DefaultConfig.GatewayBucketName>>} |->
        [objects |-> IF k[2] = DefaultConfig.DurabilityBucketName
                     THEN {objectName(i) : i \in 0..(DefaultConfig.DurabilityItemTotal - 1)}
                     ELSE {},
         lifecycle |-> k[2] # DefaultConfig.DurabilityBucketName]]

\* the watcher after MaxErrCount cycles in which the listing failed: the cycles that
\* follow are cycles without discovery error; the buckets are there
CheckInit ==
    /\ cfg = DefaultConfig
    /\ watchedServices = <<>>
    /\ errorCounter = [l \in Labels |-> IF l = "N/A" THEN MaxErrCount ELSE 0]
    /\ pc = "getServices"
    /\ listFailed = FALSE
    /\ services = {}
    /\ failedNames = {}
    /\ servicesFromConsul = <<>>
    /\ servicesToAdd = <<>>
    /\ servicesToRemove = <<>>
    /\ flushIdx = 0
    /\ removedChans = <<>>
    /\ createIdx = 0
    /\ outcome = <<>>
    /\ probeChan = 0
    /\ nextChan = 1
    /\ chans = <<>>
    /\ probes = <<>>
    /\ creationLog = {}
    /\ storage = SeededStorage
    /\ prep = PrepIdle
    /\ prepared = {}
    /\ tasks = EmptyBag
    /\ s3ExpectedDurabilityItems = <<>>
    /\ s3FoundDurabilityItems = <<>>
    /\ rawDestinations = <<>>
    /\ extracted = NotExtracted

CheckNext ==
    \/ GetServices(CheckRegistry)
    \/ GetServicesToModify
    \/ FlushDelete
    \/ ControlChanReceive
    \/ FlushClose
    \/ FlushReturn
    \/ NewProbeFromConsul
    \/ PrepareProbing /\ pc' = "register"
    \/ Register
    \/ CreateReturn
    \/ Sleep
    \/ \E c \in ChanIds : TickProbe(c) /\ NoneWaiting
    \/ \E c \in ChanIds : TickDurabilityProbe(c) /\ NoneWaiting
    \/ \E c \in ChanIds, kind \in Kinds : GoCheck(c, kind)
    \/ \E task \in BagToSet(tasks) : LatencyStep(task)
    \/ \E task \in BagToSet(tasks) : DurabilityStep(task)
    \/ \E task \in BagToSet(tasks) : GatewayStep(task)
    \/ \E task \in BagToSet(tasks) : CheckExit(task)

\* the watcher, the scheduling loops and the detached checks carried out call by
\* call, in the cycles where the preparations succeed; the answers of the storage
\* endpoints to the checks are any
CheckSpec == CheckInit /\ [][CheckNext]_vars

\* the registry the durability checks are run against: one service at one address;
\* as a gateway it has no destination and is never started
DurabilityRegistry == [names |-> {"s1"}, endpoints |-> {"10.0.0.1"},
                       gatewayEndpoints |-> {"10.0.0.1"},
                       readEndpointLists |-> {<<>>}]

\* the watcher with the preparations carried out call by call and the durability
\* checks of the probes it starts, on a storage no one else writes to
DurabilityInit == PrepareInit

DurabilityNext ==
    \/ GetServices(DurabilityRegistry)
    \/ GetServicesToModify
    \/ FlushDelete
    \/ ControlChanReceive
    \/ FlushClose
    \/ FlushReturn
    \/ NewProbeFromConsul
    \/ PrepareStart
    \/ LatencyBucketExists
    \/ LatencyMakeBucket
    \/ LatencySetBucketLifecycle
    \/ DurabilityBucketExists
    \/ DurabilityListObjects
    \/ DurabilityMakeBucket
    \/ DurabilityPutObject
    \/ PrepareReturn
    \/ Register
    \/ CreateReturn
    \/ Sleep
    \/ \E c \in ChanIds : TickDurabilityProbe(c) /\ NoneWaiting
    \/ \E c \in ChanIds : GoCheck(c, "durability")
    \/ \E task \in BagToSet(tasks) : DurabilityStep(task)
    \/ \E task \in BagToSet(tasks) : CheckExit(task)

DurabilitySpec == DurabilityInit /\ [][DurabilityNext]_vars

\* the gateway services the gateway checks are run for: one name behind one
\* gateway, with one gateway endpoint or two in either order
GatewayServices ==
    [Name : {"s1"}, Endpoint : {"10.0.0.1"}, Gateway : {TRUE},
     GatewayReadEnpoints : {<<"r1">>, <<"r1", "r2">>, <<"r2", "r1">>}]

\* the watcher has started the probe of one gateway service in its first cycle and
\* is in the sleep that ends the cycle
GatewayInit ==
    /\ cfg = DefaultConfig
    /\ \E service \in GatewayServices :
        /\ watchedServices = [n \in {service.Name} |-> [service |-> service, probeChan |-> 1]]
        /\ probes = [c \in {1} |-> NewProbe(service, 1)]
        /\ services = {service.Name}
        /\ servicesFromConsul = <<service>>
        /\ servicesToAdd = <<service>>
    /\ chans = [c \in {1} |-> [sent |-> 0, closed |-> FALSE]]
    /\ nextChan = 2
    /\ probeChan = 1
    /\ pc = "sleep"
    /\ errorCounter = [l \in Labels |-> 0]
    /\ listFailed = FALSE
    /\ failedNames = {}
    /\ servicesToRemove = <<>>
    /\ flushIdx = 0
    /\ removedChans = <<>>
    /\ createIdx = 1
    /\ outcome = <<"started">>
    /\ creationLog = {}
    /\ storage = NoStorage
    /\ prep = PrepIdle
    /\ prepared = {}
    /\ tasks = EmptyBag
    /\ s3ExpectedDurabilityItems = <<>>
    /\ s3FoundDurabilityItems = <<>>
    /\ NotParsing

\* the scheduling loop of the probe and its gateway checks, while the watcher sleeps
GatewayNext ==
    \/ \E c \in ChanIds : TickProbe(c) /\ NonePending
    \/ \E c \in ChanIds : GoCheck(c, "gateway")
    \/ \E task \in BagToSet(tasks) : GatewayStep(task)
    \/ \E task \in BagToSet(tasks) : CheckExit(task)

GatewaySpec == GatewayInit /\ [][GatewayNext]_vars

\* ------------------------------------------------------------ properties
\* the targets currently watched
WatchedSet == {watchedServices[n].service : n \in DOMAIN watchedServices}

NamesOf(S) == {x.Name : x \in S}

\* channels of the probes of a name whose StartProbing has not received the stop signal
RunningLoops(name) ==
    {c \in DOMAIN probes : probes[c].name = name /\ probes[c].state = "running"}

\* C1: for every target name at most one scheduling loop has not received its stop
\* signal, and while the watcher constructs, prepares or launches the probe of a
\* name no loop of that name is still waiting for its stop signal
C1_AtMostOneLoopPerName ==
    /\ \A n \in Names : Cardinality(RunningLoops(n)) <= 1
    /\ (\/ pc \in {"prepare", "register"}
        \/ (pc = "create" /\ createIdx < Len(servicesToAdd)))
       => RunningLoops(servicesToAdd[createIdx + 1].Name) = {}

\* a restarted name: its old loop has returned and its new loop runs
C1_Witness ==
    \E c1, c2 \in DOMAIN probes :
        /\ probes[c1].name = probes[c2].name
        /\ probes[c1].state = "returned"
        /\ probes[c2].state = "running"
        /\ c1 < c2

\* C2: getServicesToModify(B, A) returns as toAdd exactly the members of B whose name
\* is absent from A or whose same-named member of A differs, as toRemove exactly the
\* members of A whose name is absent from B or whose same-named member of B differs;
\* the names in both are exactly the names in A and B with different configurations
C2_DiffExact ==
    (pc = "flush" /\ flushIdx = 0) =>
        LET A == WatchedSet
            B == Range(servicesFromConsul)
            toAdd == Range(servicesToAdd)
            toRemove == Range(servicesToRemove)
        IN /\ toAdd = {b \in B : \A a \in A : a.Name = b.Name => a # b}
           /\ toRemove = {a \in A : \A b \in B : b.Name = a.Name => b # a}
           /\ NamesOf(toAdd) \cap NamesOf(toRemove) =
                 {n \in NamesOf(A) \cap NamesOf(B) :
                     \E a \in A, b \in B : a.Name = n /\ b.Name = n /\ a # b}
           /\ Len(servicesToAdd) = Cardinality(toAdd)
           /\ Len(servicesToRemove) = Cardinality(toRemove)

\* one name whose replicas changed order is in both results, the other name in neither
C2_Witness ==
    /\ pc = "flush" /\ flushIdx = 0
    /\ Len(servicesToAdd) = 1 /\ Len(servicesToRemove) = 1
    /\ servicesToAdd[1].Name = servicesToRemove[1].Name
    /\ servicesToAdd[1].GatewayReadEnpoints = <<"r1", "r2">>
    /\ servicesToRemove[1].GatewayReadEnpoints = <<"r2", "r1">>
    /\ Len(servicesFromConsul) = 2
    /\ Cardinality(DOMAIN watchedServices) = 2

\* the target a probe was built from
ProbeTarget(p) ==
    [Name |-> p.name, Endpoint |-> p.endpoint, Gateway |-> p.gateway,
     GatewayReadEnpoints |-> p.gatewayEndpoints]

ErrOutcomes == {"newErr", "prepErr"}

\* the first channel createNewProbes made in the current cycle, and the channel it
\* made for the j-th service to add
CycleFirstChan ==
    nextChan - Len(outcome) - (IF pc \in {"prepare", "register"} THEN 1 ELSE 0)

ChanOfAdd(j) == CycleFirstChan + j - 1

FlushPhase == {"flush", "flushSend", "flushClose"}
CreatePhase == {"create", "prepare", "register"}

\* at the end of a cycle, for a name that is both removed and added: the old probe has
\* returned and is untouched; the name maps to the new target with a channel of its
\* own and a running probe built from the new target, or, if `failures` holds the
\* outcome of the new probe, to nothing
RestartedAtEndOfCycle(failures) ==
    pc = "sleep" =>
        \A i \in DOMAIN servicesToRemove, j \in DOMAIN servicesToAdd :
            servicesToRemove[i].Name = servicesToAdd[j].Name =>
                LET n == servicesToAdd[j].Name
                    old == removedChans[i]
                    new == ChanOfAdd(j)
                IN /\ old \in DOMAIN probes
                   /\ probes[old].state = "returned"
                   /\ ProbeTarget(probes[old]) = servicesToRemove[i]
                   /\ chans[old].sent = 1
                   /\ \/ /\ outcome[j] = "started"
                         /\ n \in DOMAIN watchedServices
                         /\ watchedServices[n] = [service |-> servicesToAdd[j], probeChan |-> new]
                         /\ new # old
                         /\ chans[new] = [sent |-> 0, closed |-> FALSE]
                         /\ new \in DOMAIN probes
                         /\ probes[new].state = "running"
                         /\ probes[new].controlChan = new
                         /\ ProbeTarget(probes[new]) = servicesToAdd[j]
                      \/ /\ outcome[j] \in failures
                         /\ n \notin DOMAIN watchedServices
                         /\ new \notin DOMAIN probes

\* no step changes the entry of a name that stays in the map, nor the target or the
\* channel of a probe
NoInPlaceChange ==
    /\ \A n \in DOMAIN watchedServices :
          n \in DOMAIN watchedServices' => watchedServices'[n] = watchedServices[n]
    /\ \A c \in DOMAIN probes :
          /\ probes[c].state = "running" => c \in DOMAIN probes'
          /\ c \in DOMAIN probes' =>
                /\ ProbeTarget(probes'[c]) = ProbeTarget(probes[c])
                /\ probes'[c].controlChan = probes[c].controlChan

\* C3 as stated: when the configuration of a watched name changes, the cycle stops the
\* old probe and the map then holds the new target with a fresh channel, or no entry
\* if the preparation of the new probe failed
C3_Original == RestartedAtEndOfCycle({"prepErr"})

\* C3 amended: when the configuration of a watched name changes, the cycle stops the
\* old probe and the map then holds the new target with a fresh channel, or no entry
\* if the construction or the preparation of the new probe failed; no map entry and no
\* probe is ever changed in place
C3_RestartNotUpdate ==
    /\ []RestartedAtEndOfCycle(ErrOutcomes)
    /\ [][NoInPlaceChange]_vars

\* a changed name restarted with success
C3_Witness ==
    /\ pc = "sleep"
    /\ \E i \in DOMAIN servicesToRemove, j \in DOMAIN servicesToAdd :
          /\ servicesToRemove[i].Name = servicesToAdd[j].Name
          /\ servicesToRemove[i].Endpoint # servicesToAdd[j].Endpoint
          /\ outcome[j] = "started"

\* C4: every service to remove has been sent its stop signal, exactly once, and has
\* lost its map entry before createNewProbes constructs or prepares anything
C4_StopBeforeStart ==
    /\ \A c \in DOMAIN chans : chans[c].sent <= 1
    /\ Len(removedChans) = flushIdx
    /\ \A i \in DOMAIN removedChans :
          LET c == removedChans[i] IN
          /\ c \in DOMAIN probes
          /\ chans[c].sent = 1
          /\ probes[c].state = "returned"
          /\ \A n \in DOMAIN watchedServices : watchedServices[n].probeChan # c
          /\ (pc \in FlushPhase \/ (pc = "create" /\ createIdx = 0))
                => servicesToRemove[i].Name \notin DOMAIN watchedServices
    /\ pc \in CreatePhase \cup {"sleep"} => flushIdx = Len(servicesToRemove)
    /\ pc \in FlushPhase => (createIdx = 0 /\ outcome = <<>> /\ CycleFirstChan = nextChan)

\* createNewProbes is entered with something to remove done and something to add
C4_Witness ==
    /\ pc = "create"
    /\ createIdx = 0
    /\ Len(servicesToRemove) >= 1
    /\ Len(servicesToAdd) >= 1
    /\ servicesToRemove[1].Name # servicesToAdd[1].Name

\* creations of earlier cycles that failed and whose target is a candidate again
FailedEarlier == {e \in creationLog : e.service \in Range(servicesFromConsul)}

\* a failed creation leaves no map entry and no probe, and the loop goes on to the
\* remaining services to add
FailedCreationDiscarded ==
    /\ \A j \in DOMAIN outcome :
          outcome[j] \in ErrOutcomes =>
              /\ ChanOfAdd(j) \notin DOMAIN probes
              /\ \A n \in DOMAIN watchedServices : watchedServices[n].probeChan # ChanOfAdd(j)
              /\ servicesToAdd[j].Name \notin DOMAIN watchedServices
              /\ RunningLoops(servicesToAdd[j].Name) = {}
    /\ pc = "sleep" => Len(outcome) = Len(servicesToAdd)

\* C5 as stated: a failed construction or preparation registers nothing and launches
\* nothing, the remaining services are processed, and in every later cycle in which
\* the target is a candidate it is in toAdd and its preparation is attempted
C5_Original ==
    /\ FailedCreationDiscarded
    /\ pc = "sleep" =>
          \A c \in FailedEarlier :
              \E j \in DOMAIN servicesToAdd :
                  /\ servicesToAdd[j] = c.service
                  /\ outcome[j] \in {"prepErr", "started"}

\* C5 amended: ... in every later cycle in which the target is a candidate it is in
\* toAdd and its construction is attempted again, and its preparation when the
\* construction succeeds, unless a probe of that very target was registered in
\* between and is still watched
C5_FailedCreationRetried ==
    /\ FailedCreationDiscarded
    /\ pc = "sleep" =>
          \A c \in FailedEarlier :
              LET t == c.service IN
              \/ \E j \in DOMAIN servicesToAdd :
                    /\ servicesToAdd[j] = t
                    /\ IF NewProbeFails(t)
                       THEN outcome[j] = "newErr"
                       ELSE outcome[j] \in {"prepErr", "started"}
              \/ /\ t.Name \in DOMAIN watchedServices
                 /\ watchedServices[t.Name].service = t
                 /\ watchedServices[t.Name].probeChan < CycleFirstChan

\* a cycle in which the first service to add failed and the second was started
C5_WitnessRemaining ==
    /\ pc = "sleep"
    /\ Len(outcome) = 2
    /\ outcome[1] = "prepErr"
    /\ outcome[2] = "started"

\* a target whose preparation failed in an earlier cycle is prepared again
C5_Witness ==
    /\ pc = "sleep"
    /\ \E c \in FailedEarlier, j \in DOMAIN servicesToAdd :
          /\ c.result = "prepErr"
          /\ servicesToAdd[j] = c.service
          /\ outcome[j] = "started"

\* C6: when the listing of the services fails, the counter "N/A" grows by exactly one
\* and no other counter moves, the candidates are empty, nothing is added, and at
\* the end of the cycle every probe is stopped and the map is empty; the watcher then
\* leaves its sleep for the next cycle
C6_ListFailure ==
    /\ [](listFailed =>
            /\ pc # "getServices"
            /\ servicesFromConsul = <<>>
            /\ pc \notin {"getServicesToModify"} =>
                  /\ servicesToAdd = <<>>
                  /\ outcome = <<>>
                  /\ CycleFirstChan = nextChan
            /\ pc \in CreatePhase \cup {"sleep"} =>
                  /\ watchedServices = <<>>
                  /\ \A c \in DOMAIN probes : probes[c].state = "returned"
            /\ pc = "sleep" => ENABLED Sleep)
    /\ [][(pc = "getServices" /\ listFailed') =>
             errorCounter' = [errorCounter EXCEPT !["N/A"] = @ + 1]]_vars

\* a failed listing has stopped the two probes that were running
C6_Witness ==
    /\ listFailed
    /\ pc = "sleep"
    /\ Len(removedChans) = 2
    /\ servicesToRemove[1].Name # servicesToRemove[2].Name

\* C7: a listed service whose resolution fails is left out of the candidates and its
\* counter grows by exactly one, every other listed service is a candidate and no
\* other counter moves; a watched service whose resolution failed is stopped and
\* removed from the map by the end of the cycle
C7_ResolveFailure ==
    /\ [](/\ failedNames \subseteq services
          /\ NamesOf(Range(servicesFromConsul)) = services \ failedNames
          /\ Len(servicesFromConsul) = Cardinality(services \ failedNames)
          /\ pc \in CreatePhase \cup {"sleep"} =>
                \A n \in failedNames :
                    /\ n \notin DOMAIN watchedServices
                    /\ RunningLoops(n) = {})
    /\ [][(pc = "getServices" /\ ~listFailed') =>
             errorCounter' = [l \in Labels |->
                                IF l \in failedNames' THEN errorCounter[l] + 1
                                ELSE errorCounter[l]]]_vars

\* the resolution of a watched service failed, its probe was stopped, and the other
\* listed service is a candidate
C7_Witness ==
    /\ pc = "sleep"
    /\ \E n \in failedNames :
          /\ \E i \in DOMAIN servicesToRemove :
                /\ servicesToRemove[i].Name = n
                /\ probes[removedChans[i]].state = "returned"
          /\ \E m \in services \ failedNames : m # n

\* C8: a scheduling loop that has received the stop signal has returned nil with both
\* timers silent, stays returned, and launches no further check, whatever checks of
\* the probe are still in flight
C8_GracefulStop ==
    /\ [](\A c \in DOMAIN probes :
            /\ probes[c].state = "returned" <=> chans[c].sent = 1
            /\ probes[c].state = "returned" <=> probes[c].ret = "nil"
            /\ probes[c].state = "returned" =>
                  /\ ~TimerFires(probes[c].tickerProbe)
                  /\ ~TimerFires(probes[c].tickerDurabilityProbe)
                  /\ ~ENABLED TickProbe(c)
                  /\ ~ENABLED TickDurabilityProbe(c))
    /\ [][\A c \in DOMAIN probes :
             probes[c].state = "returned" =>
                 IF c \in DOMAIN probes'
                 THEN /\ probes'[c].state = "returned"
                      /\ probes'[c].ret = "nil"
                      /\ \A k \in Kinds : probes'[c].inflight[k] <= probes[c].inflight[k]
                 ELSE InFlight(probes[c]) = 0]_vars

\* a loop has returned while two of its checks are in flight
C8_Witness ==
    \E c \in DOMAIN probes :
        /\ probes[c].state = "returned"
        /\ probes[c].ret = "nil"
        /\ probes[c].inflight["latency"] >= 1
        /\ probes[c].inflight["durability"] >= 1

\* C9: a probe whose check rate is 0 never has a latency or gateway check, a probe
\* whose durability rate is 0 never has a durability check; a timer of rate 0 has no
\* ticker and stays so when it is stopped, and the loop returns all the same
C9_ZeroRateDisables ==
    \A c \in DOMAIN probes :
        /\ probes[c].probeRatePerMin = 0 =>
              /\ probes[c].inflight["latency"] = 0
              /\ probes[c].inflight["gateway"] = 0
              /\ probes[c].tickerProbe.Ticker = "nil"
        /\ probes[c].durabilityProbeRatePerMin = 0 =>
              /\ probes[c].inflight["durability"] = 0
              /\ probes[c].tickerDurabilityProbe.Ticker = "nil"
        /\ probes[c].probeRatePerMin # 0 =>
              probes[c].tickerProbe.Ticker =
                  (IF probes[c].state = "returned" THEN "stopped" ELSE "running")
        /\ (probes[c].state = "running" /\ AllInFlight < MaxInflight) =>
              /\ ENABLED TickProbe(c) <=> probes[c].probeRatePerMin # 0
              /\ (~probes[c].gateway) =>
                    (ENABLED TickDurabilityProbe(c) <=> probes[c].durabilityProbeRatePerMin # 0)
        /\ (pc = "flushSend" /\ probeChan = c) => ENABLED ControlChanReceive
        /\ probes[c].durabilityProbeRatePerMin # 0 =>
              probes[c].tickerDurabilityProbe.Ticker =
                  (IF probes[c].state = "returned" THEN "stopped" ELSE "running")

\* with the check rate 0, the durability trigger has fired and the loop was stopped
C9_Witness ==
    \E c \in DOMAIN probes :
        /\ probes[c].probeRatePerMin = 0
        /\ probes[c].durabilityProbeRatePerMin # 0
        /\ probes[c].inflight["durability"] >= 1
        /\ probes[c].state = "returned"
        /\ probes[c].tickerProbe.Ticker = "nil"

\* C10: a firing of the check trigger launches one gateway check for a gateway probe
\* and one latency check otherwise, a firing of the durability trigger launches one
\* durability check for a simple probe and nothing for a gateway probe; a gateway
\* probe never has a latency or durability check, a simple probe never a gateway check
C10_ChecksByRole ==
    /\ [](\A c \in DOMAIN probes :
            IF probes[c].gateway
            THEN probes[c].inflight["latency"] = 0 /\ probes[c].inflight["durability"] = 0
            ELSE probes[c].inflight["gateway"] = 0)
    /\ [][\A c \in DOMAIN probes :
             /\ TickProbe(c) =>
                   probes'[c].inflight =
                       [probes[c].inflight EXCEPT
                           ![IF probes[c].gateway THEN "gateway" ELSE "latency"] = @ + 1]
             /\ TickDurabilityProbe(c) =>
                   probes'[c].inflight =
                       (IF probes[c].gateway THEN probes[c].inflight
                        ELSE [probes[c].inflight EXCEPT !["durability"] = @ + 1])]_vars

\* a gateway probe with a check in flight next to a returned simple probe whose
\* latency and durability checks are in flight
C10_Witness ==
    \E c, d \in DOMAIN probes :
        /\ probes[c].gateway
        /\ probes[c].inflight["gateway"] >= 1
        /\ probes[c].durabilityProbeRatePerMin # 0
        /\ ~probes[d].gateway
        /\ probes[d].inflight["latency"] >= 1
        /\ probes[d].inflight["durability"] >= 1

\* C12: the scheduling loop never waits for a check: a running loop whose trigger
\* fires can launch a check whatever checks of the same probe are still in flight,
\* and a check in flight can return whatever other checks are in flight
C12_LoopNeverWaits ==
    \A c \in DOMAIN probes :
        /\ (/\ probes[c].state = "running"
            /\ InFlight(probes[c]) > 0
            /\ AllInFlight < MaxInflight) =>
              /\ TimerFires(probes[c].tickerProbe) => ENABLED TickProbe(c)
              /\ TimerFires(probes[c].tickerDurabilityProbe) => ENABLED TickDurabilityProbe(c)
        /\ \A k \in Kinds : probes[c].inflight[k] > 0 => ENABLED CheckReturn(c, k)

\* two latency checks of one running probe are in flight at once
C12_Witness ==
    \E c \in DOMAIN probes :
        /\ probes[c].state = "running"
        /\ probes[c].inflight["latency"] >= 2

\* C15: Equals holds of two targets exactly when they have the same name, the same
\* address, the same role and replica lists of the same length that agree position by
\* position; the same replicas in another order, or a prefix of the list, are unequal
C15_EqualsIsFieldwise ==
    \A i \in DOMAIN servicesFromConsul, n \in DOMAIN watchedServices :
        LET s == servicesFromConsul[i]
            other == watchedServices[n].service
            a == s.GatewayReadEnpoints
            b == other.GatewayReadEnpoints
        IN /\ Equals(s, other) <=>
                 /\ s.Name = other.Name
                 /\ s.Endpoint = other.Endpoint
                 /\ s.Gateway = other.Gateway
                 /\ Len(a) = Len(b)
                 /\ \A k \in 1..Len(a) : a[k] = b[k]
           /\ Equals(s, other) <=> Equals(other, s)
           /\ (Range(a) = Range(b) /\ a # b) => ~Equals(s, other)
           /\ (Len(a) < Len(b) /\ \A k \in 1..Len(a) : a[k] = b[k]) => ~Equals(s, other)

\* a candidate whose replicas are those of the watched target in another order, and a
\* candidate whose replicas are a prefix of those of the watched target
C15_Witness ==
    /\ pc = "flush"
    /\ \E i, j \in DOMAIN servicesFromConsul :
          /\ i # j
          /\ servicesFromConsul[i].Name \in DOMAIN watchedServices
          /\ servicesFromConsul[j].Name \in DOMAIN watchedServices
          /\ LET s == servicesFromConsul[i]
                 t == servicesFromConsul[j]
                 ws == watchedServices[s.Name].service
                 wt == watchedServices[t.Name].service
             IN /\ s.Endpoint = ws.Endpoint /\ s.Gateway = ws.Gateway
                /\ s.GatewayReadEnpoints = <<"r1", "r2">>
                /\ ws.GatewayReadEnpoints = <<"r2", "r1">>
                /\ t.Endpoint = wt.Endpoint /\ t.Gateway = wt.Gateway
                /\ t.GatewayReadEnpoints = <<"r1">>
                /\ wt.GatewayReadEnpoints = <<"r1", "r2">>
                /\ Len(servicesToAdd) = 2
                /\ Len(servicesToRemove) = 2

\* C16: when the candidates of a cycle are, target by target, the watched targets,
\* nothing is to add and nothing to remove, and no step of flushOldProbes and
\* createNewProbes in that cycle changes the map, a channel or a probe
C16_NoChangeNoEffect ==
    /\ []((pc = "flush" /\ flushIdx = 0 /\ Range(servicesFromConsul) = WatchedSet) =>
            (servicesToAdd = <<>> /\ servicesToRemove = <<>>))
    /\ []((pc = "sleep" /\ servicesToAdd = <<>> /\ servicesToRemove = <<>>) =>
            (removedChans = <<>> /\ outcome = <<>> /\ CycleFirstChan = nextChan))
    /\ [][(/\ pc \in FlushPhase \cup CreatePhase
           /\ servicesToAdd = <<>>
           /\ servicesToRemove = <<>>) =>
             /\ watchedServices' = watchedServices
             /\ chans' = chans
             /\ probes' = probes
             /\ nextChan' = nextChan
             /\ pc' \in {"create", "sleep"}]_vars

\* a cycle that found the two watched targets unchanged is over
C16_Witness ==
    /\ pc = "sleep"
    /\ Len(servicesFromConsul) = 2
    /\ Range(servicesFromConsul) = WatchedSet
    /\ servicesToAdd = <<>>
    /\ servicesToRemove = <<>>
    /\ \A n \in DOMAIN watchedServices : probes[watchedServices[n].probeChan].state = "running"

\* ---------------------------------------------- properties of the preparation
\* the calls to the storage endpoints, as opposed to the counter increments
StorageOps == {"BucketExists", "MakeBucket", "SetBucketLifecycle", "ListObjects", "PutObject"}

\* positions in the log of the call of PrepareProbing in progress
Calls(ops, bucketName) ==
    {k \in DOMAIN prep.ops : prep.ops[k].op \in ops /\ prep.ops[k].bucket = bucketName}

\* a gateway without destinations
NoDestination(service) == service.Gateway /\ Len(service.GatewayReadEnpoints) = 0

\* C17: the preparation of a gateway probe without replica addresses ends at once with an
\* error, before any call to a storage endpoint and with the storage as it was;
\* createNewProbes records the creation as failed and closes the channel, and no
\* such probe is ever registered or started
C17_NoDestinationFailsAtOnce ==
    /\ (prep.pc # "idle" /\ NoDestination(prep.service)) =>
          /\ prep.pc = "done"
          /\ prep.err # NoError
          /\ prep.ops = <<>>
          /\ storage = prep.before
    /\ \A j \in DOMAIN outcome :
          NoDestination(servicesToAdd[j]) =>
              /\ outcome[j] \in ErrOutcomes
              /\ chans[ChanOfAdd(j)].closed
              /\ chans[ChanOfAdd(j)].sent = 0
              /\ ChanOfAdd(j) \notin DOMAIN probes
    /\ \A c \in DOMAIN probes : ~(probes[c].gateway /\ Len(probes[c].gatewayEndpoints) = 0)
    /\ \A n \in DOMAIN watchedServices : ~NoDestination(watchedServices[n].service)

C17_Witness ==
    \E j \in DOMAIN outcome :
        /\ NoDestination(servicesToAdd[j])
        /\ outcome[j] = "prepErr"
        /\ chans[ChanOfAdd(j)].closed

\* the destinations whose gateway bucket the preparation in progress has asked for
Visited == {prep.ops[k].at : k \in Calls({"BucketExists"}, cfg.GatewayBucketName)}

\* a gateway preparation with at least one destination that has come to its end
GatewayDone ==
    /\ prep.pc = "done"
    /\ prep.service.Gateway
    /\ Len(prep.service.GatewayReadEnpoints) >= 1

\* C18 as stated: the preparation of a gateway probe visits every replica, even after
\* a failure on an earlier one
C18_Original ==
    GatewayDone => Visited = Range(prep.service.GatewayReadEnpoints)

\* C18: the preparation of a gateway probe visits its replicas in order and stops at
\* the first replica whose bucket-exists or make-bucket call fails: it returns that
\* error at once, the later replicas are not visited, the earlier ones have their
\* bucket; when no such call fails every replica is visited and has its bucket
C18_StopsAtFirstFailure ==
    (prep.pc # "idle" /\ prep.service.Gateway /\ Len(prep.service.GatewayReadEnpoints) >= 1) =>
        LET replicas == prep.service.GatewayReadEnpoints
            bucketName == cfg.GatewayBucketName
            failures == {k \in Calls({"BucketExists", "MakeBucket"}, bucketName) :
                            ~prep.ops[k].ok}
            inIteration == \/ prep.pc \in {"gatewayMakeBucket", "gatewaySetBucketLifecycle"}
                           \/ prep.pc = "done" /\ prep.err # NoError
        IN /\ Visited = {replicas[k] : k \in 1..(IF inIteration THEN prep.i + 1 ELSE prep.i)}
           /\ \A k \in 1..prep.i : BucketExists(replicas[k], bucketName)
           /\ prep.err = NoError => failures = {}
           /\ prep.err # NoError =>
                 /\ prep.pc = "done"
                 /\ failures = {Len(prep.ops)}
                 /\ prep.err = [op |-> prep.ops[Len(prep.ops)].op, at |-> replicas[prep.i + 1]]
                 /\ prep.ops[Len(prep.ops)].at = replicas[prep.i + 1]
           /\ (prep.pc = "done" /\ prep.err = NoError) =>
                 /\ prep.i = Len(replicas)
                 /\ \A k \in DOMAIN replicas : BucketExists(replicas[k], bucketName)

\* a failure on the first replica of two
C18_Witness ==
    /\ GatewayDone
    /\ prep.err # NoError
    /\ prep.i = 0
    /\ Len(prep.service.GatewayReadEnpoints) = 2

\* a call of PrepareProbing on a service an earlier call has prepared with success
SecondRun == prep.pc # "idle" /\ prep.service \in prepared

DurabilityBucketExisted ==
    <<prep.service.Endpoint, cfg.DurabilityBucketName>> \in DOMAIN prep.before

\* the number of objects it held then
CountBefore ==
    Cardinality(prep.before[<<prep.service.Endpoint, cfg.DurabilityBucketName>>].objects)

InSeeding == prep.pc = "durabilityPutObject"

\* the preparation in progress never stops making steps
PrepareLiveSpec == PrepareSpec /\ WF_vars(DurabilityPutObject)

\* what the seeding loop has done so far: item prep.i is the next to write, the
\* items before it are in the bucket, one successful write each
SeedingInOrder ==
    /\ InSeeding =>
          /\ prep.i \in 0..(cfg.DurabilityItemTotal - 1)
          /\ prep.err = NoError
          /\ Cardinality({k \in Calls({"PutObject"}, cfg.DurabilityBucketName) : prep.ops[k].ok})
                = prep.i
          /\ \A i \in 0..(prep.i - 1) :
                objectName(i) \in ListObjects(prep.service.Endpoint, cfg.DurabilityBucketName)
    /\ prep.err.op # "PutObject"
    /\ (prep.pc = "done" /\ Calls({"PutObject"}, cfg.DurabilityBucketName) # {}) =>
          /\ prep.err = NoError
          /\ Cardinality({k \in Calls({"PutObject"}, cfg.DurabilityBucketName) : prep.ops[k].ok})
                = cfg.DurabilityItemTotal
          /\ \A i \in 0..(cfg.DurabilityItemTotal - 1) :
                objectName(i) \in ListObjects(prep.service.Endpoint, cfg.DurabilityBucketName)

\* one step of the seeding loop: a write of item prep.i, which on success puts
\* "fake-item-" + i into the bucket and moves to item i + 1, and on failure leaves
\* the loop at item i with no error recorded
SeedingStep ==
    (InSeeding /\ prep' # prep) =>
        /\ Len(prep'.ops) = Len(prep.ops) + 1
        /\ prep'.ops[Len(prep'.ops)].op = "PutObject"
        /\ prep'.ops[Len(prep'.ops)].bucket = cfg.DurabilityBucketName
        /\ IF prep'.ops[Len(prep'.ops)].ok
           THEN /\ storage' = PutObject(prep.service.Endpoint, cfg.DurabilityBucketName,
                                        <<"fake-item-", prep.i>>)
                /\ prep'.i = prep.i + 1
                /\ prep'.pc \in {"durabilityPutObject", "done"}
                /\ prep'.pc = "done" <=> prep'.i = cfg.DurabilityItemTotal
           ELSE /\ storage' = storage
                /\ prep'.i = prep.i
                /\ InSeeding'
        /\ prep'.err = NoError

\* C21: seeding writes the items 0..durabilityItemTotal-1 in index order, each named
\* "fake-item-" + index; a failed write of item i is tried again for the same i and
\* item i+1 is not attempted before item i is written; a write failure is never the
\* error of the preparation, which succeeds only after every item is written; when the
\* writes stop failing the seeding terminates
C21_SeedingRetriesInOrder ==
    /\ []SeedingInOrder
    /\ [][SeedingStep]_vars
    /\ (InSeeding ~> (prep.pc = "done" /\ prep.err = NoError))

\* a seeding has ended after a failed write
C21_Witness ==
    /\ prep.pc = "done"
    /\ prep.err = NoError
    /\ \E k \in Calls({"PutObject"}, cfg.DurabilityBucketName) : ~prep.ops[k].ok
    /\ Cardinality({k \in Calls({"PutObject"}, cfg.DurabilityBucketName) : prep.ops[k].ok})
          = cfg.DurabilityItemTotal

\* the seeding in progress has had a write fail
SeedingRetrying ==
    /\ InSeeding
    /\ \E k \in Calls({"PutObject"}, cfg.DurabilityBucketName) : ~prep.ops[k].ok

\* createNewProbes is inside its call of PrepareProbing for the target it is at,
\* which is in no map entry and has no running loop
PreparedInTheLoop ==
    prep.pc # "idle" =>
        /\ pc = "prepare"
        /\ prep.service = servicesToAdd[createIdx + 1]
        /\ prep.service.Name \notin DOMAIN watchedServices
        /\ RunningLoops(prep.service.Name) = {}

\* while the seeding loop is at an item, a step is a write of the seeding and
\* nothing else: the watcher and the probes stay as they are
OnlySeedingSteps ==
    InSeeding => /\ watcherVars' = watcherVars
                 /\ probes' = probes
                 /\ prepared' = prepared
                 /\ prep'.service = prep.service

\* C29: PrepareProbing runs inside createNewProbes: while the seeding of a target
\* is retrying, the target is not in the map and has no running loop, and the
\* watcher takes no step of its own until the seeding has ended
C29_SeedingBlocksTheWatcher ==
    /\ []PreparedInTheLoop
    /\ [][OnlySeedingSteps]_vars

\* a seeding that is retrying, with the watcher waiting in createNewProbes
C29_Witness ==
    /\ SeedingRetrying
    /\ pc = "prepare"
    /\ prep.i > 0

\* ------------------------------------------ properties of the detached checks
\* the checks in progress of one kind
Checks(kind) == {task \in BagToSet(tasks) : task.kind = kind}

\* the steps a check still has to take are steps of its own body
CheckStep(task) == LatencyStep(task) \/ DurabilityStep(task) \/ GatewayStep(task)

\* C11: a latency check runs list_buckets, put_object, get_object, remove_object in
\* that order, the last three on the object name drawn at its start; every step but
\* its last has succeeded, a failed step is its last and makes it return an error,
\* and it returns nil only after the four steps have succeeded
C11_LatencyStepsInOrder ==
    \A task \in Checks("latency") :
        LET n == Len(task.ops) IN
        /\ n <= Len(LatencyOps)
        /\ \A k \in 1..n :
              /\ task.ops[k].op = LatencyOps[k]
              /\ task.ops[k].at = probes[task.probe].endpoint
              /\ task.ops[k].objectName = IF k = 1 THEN 0 ELSE task.objectName
              /\ k < n => task.ops[k].ok
        /\ task.objectName \in ObjectNames
        /\ IF task.pc = "returned"
           THEN /\ n >= 1
                /\ task.err <=> ~task.ops[n].ok
                /\ ~task.err => n = Len(LatencyOps)
                /\ ~ENABLED LatencyStep(task)
           ELSE /\ n < Len(LatencyOps)
                /\ task.pc = LatencyOps[n + 1]
                /\ ~task.err
                /\ \A k \in 1..n : task.ops[k].ok

\* a latency check has returned the error of its put, the get and the remove not tried
C11_Witness ==
    \E task \in Checks("latency") :
        /\ task.pc = "returned"
        /\ task.err
        /\ Len(task.ops) = 2
        /\ task.ops[1].ok

\* the probes whose loop has returned and whose entry the watcher has removed
Flushed == {c \in DOMAIN probes :
               /\ probes[c].state = "returned"
               /\ \A n \in DOMAIN watchedServices : watchedServices[n].probeChan # c}

\* C13: the stop signal and every step of the watcher, those of flushOldProbes
\* included, leave the checks of the probes as they are: none is cancelled, none is
\* waited for. A check that has begun takes
\* its next step whatever the state of the loop that launched it, also when the
\* entry of its probe is gone and another probe of the same name is running, and a
\* check leaves only by returning
C13_StopLeavesChecksRunning ==
    /\ [](\A task \in BagToSet(tasks) :
            /\ task.probe \in DOMAIN probes
            /\ task.pc \notin {"returned"} \cup Stuck => ENABLED CheckStep(task)
            /\ task.pc = "returned" => ENABLED CheckExit(task))
    /\ [][(watcherVars' # watcherVars \/ \E c \in DOMAIN probes :
                                              /\ probes[c].state = "running"
                                              /\ c \in DOMAIN probes' => probes'[c].state # "running")
             => /\ tasks' = tasks
                /\ \A c \in DOMAIN probes :
                      /\ InFlight(probes[c]) > 0 => c \in DOMAIN probes'
                      /\ c \in DOMAIN probes' => probes'[c].inflight = probes[c].inflight]_vars
    /\ [][\A task \in BagToSet(tasks) :
             CopiesIn(task, tasks') < CopiesIn(task, tasks) =>
                 \/ task.pc = "returned"
                 \/ /\ task.pc \notin {"returned"} \cup Stuck
                    /\ BagCardinality(tasks') = BagCardinality(tasks)]_vars

\* a check of a flushed probe has a step to take while another probe of the same
\* name is running
C13_Witness ==
    \E task \in BagToSet(tasks) :
        /\ task.probe \in Flushed
        /\ task.pc \notin {"returned"} \cup Stuck
        /\ Len(task.ops) >= 1
        /\ chans[task.probe].closed
        /\ \E c \in DOMAIN probes :
              /\ c # task.probe
              /\ probes[c].name = probes[task.probe].name
              /\ probes[c].state = "running"

\* C14: no step of a check changes the state of a scheduling loop or its timers; a
\* loop leaves the running state only in the step that takes the stop signal from
\* its channel; and while a loop runs next to a check of its own that has failed,
\* its triggers still launch checks
C14_CheckOutcomeNeverStopsLoop ==
    /\ [][\A c \in DOMAIN probes :
             /\ tasks' # tasks =>
                   /\ c \in DOMAIN probes'
                   /\ probes'[c].state = probes[c].state
                   /\ probes'[c].ret = probes[c].ret
                   /\ probes'[c].tickerProbe = probes[c].tickerProbe
                   /\ probes'[c].tickerDurabilityProbe = probes[c].tickerDurabilityProbe
             /\ (probes[c].state = "running" /\ c \in DOMAIN probes'
                                             /\ probes'[c].state # "running") =>
                   /\ chans'[c].sent = chans[c].sent + 1
                   /\ pc = "flushSend"
                   /\ probeChan = c
             /\ probes[c].state = "running" => c \in DOMAIN probes']_vars
    /\ [](\A task \in BagToSet(tasks) :
            (task.pc = "returned" /\ task.err /\ probes[task.probe].state = "running"
                                  /\ AllInFlight < MaxInflight) =>
                /\ TimerFires(probes[task.probe].tickerProbe)
                /\ TimerFires(probes[task.probe].tickerDurabilityProbe)
                /\ ENABLED TickProbe(task.probe)
                /\ ENABLED TickDurabilityProbe(task.probe))

\* next to a check that has failed, a check of the same probe and kind is launched
C14_Witness ==
    \E task \in BagToSet(tasks) :
        /\ task.pc = "returned"
        /\ task.err
        /\ probes[task.probe].state = "running"
        /\ probes[task.probe].inflight[task.kind] = 2

\* the channels of probes that no entry of the map refers to
UnmappedChans ==
    {c \in DOMAIN probes : \A n \in DOMAIN watchedServices : watchedServices[n].probeChan # c}

\* a step that changes the map is the delete of flushOldProbes, which takes out
\* the entry of the service it is at, or the insert of createNewProbes, which
\* writes the entry of the service it is at
MapWrite ==
    watchedServices' # watchedServices =>
        \/ /\ pc = "flush"
           /\ servicesToRemove[flushIdx + 1].Name \in DOMAIN watchedServices
           /\ DOMAIN watchedServices' =
                 DOMAIN watchedServices \ {servicesToRemove[flushIdx + 1].Name}
           /\ \A n \in DOMAIN watchedServices' : watchedServices'[n] = watchedServices[n]
        \/ /\ pc = "register"
           /\ DOMAIN watchedServices' =
                 DOMAIN watchedServices \cup {servicesToAdd[createIdx + 1].Name}
           /\ watchedServices'[servicesToAdd[createIdx + 1].Name] =
                 [service |-> servicesToAdd[createIdx + 1], probeChan |-> probeChan]
           /\ \A n \in DOMAIN watchedServices \ {servicesToAdd[createIdx + 1].Name} :
                 watchedServices'[n] = watchedServices[n]

\* a step of a scheduling loop or of a check: it changes a probe that exists, or
\* the checks in progress
LoopOrCheckStep ==
    \/ tasks' # tasks
    \/ \E c \in DOMAIN probes \cap DOMAIN probes' : probes'[c] # probes[c]

\* C30: the map changes only in the delete of flushOldProbes and the insert of
\* createNewProbes; a step of a scheduling loop or of a check leaves it as it is,
\* and a check goes on whether or not its probe has an entry
C30_MapOwnedByWatcher ==
    /\ [][MapWrite]_vars
    /\ [][LoopOrCheckStep => watchedServices' = watchedServices]_vars
    /\ [](\A task \in BagToSet(tasks) :
            (task.pc \notin {"returned"} \cup Stuck /\ task.probe \in UnmappedChans)
                => ENABLED CheckStep(task))

\* the entry of a running probe has just been deleted while a check of that probe
\* is in progress
C30_Witness ==
    /\ pc = "flushSend"
    /\ probeChan \in DOMAIN probes
    /\ probes[probeChan].state = "running"
    /\ probeChan \in UnmappedChans
    /\ \E task \in BagToSet(tasks) : task.probe = probeChan /\ Len(task.ops) >= 1

\* the cycle has ended and getServices resolved every service the listing returned
DiscoveryComplete == pc = "sleep" /\ ~listFailed /\ failedNames = {}

\* C28 as stated: after a cycle in which every listed service was resolved and no
\* preparation failed, the targets in the map are exactly the candidates
C28_Original ==
    (DiscoveryComplete /\ \A j \in DOMAIN outcome : outcome[j] # "prepErr")
        => WatchedSet = Range(servicesFromConsul)

\* C28 amended: after a cycle in which every listed service was resolved and
\* both the construction and the preparation of every service to add succeeded,
\* the targets in the map are exactly the candidates, one entry per name
C28_MapEqualsCandidates ==
    (DiscoveryComplete /\ \A j \in DOMAIN outcome : outcome[j] = "started")
        => /\ WatchedSet = Range(servicesFromConsul)
           /\ \A n \in DOMAIN watchedServices : watchedServices[n].service.Name = n
           /\ Cardinality(DOMAIN watchedServices) = Len(servicesFromConsul)

\* a cycle that stopped a probe, started another and left the map equal to the
\* candidates
C28_Witness ==
    /\ DiscoveryComplete
    /\ \A j \in DOMAIN outcome : outcome[j] = "started"
    /\ Len(servicesToAdd) >= 1
    /\ Len(servicesToRemove) >= 1
    /\ WatchedSet = Range(servicesFromConsul)

\* ---------------------------------------- properties of the durability check
\* the durability checks that take their step, the listing, in the step at hand
Listing ==
    {task \in BagToSet(tasks) : /\ task.kind = "durability"
                                /\ task.pc = "list_objects"
                                /\ CopiesIn(task, tasks') < CopiesIn(task, tasks)}

\* the check after its listing
Listed(task) ==
    CHOOSE next \in BagToSet(tasks') :
        /\ CopiesIn(next, tasks') > CopiesIn(next, tasks)
        /\ next.probe = task.probe
        /\ next.kind = "durability"

\* the objects in the durability bucket of a probe
DurabilityObjects(c) == storage[<<probes[c].endpoint, cfg.DurabilityBucketName>>].objects

\* a durability check whose listing reaches its end sets the found gauge of its
\* probe to the number of objects in the bucket and the expected gauge to
\* durabilityItemTotal
CountedStep ==
    \A task \in Listing :
        /\ Listed(task).pc = "returned"
        /\ ~Listed(task).err =>
              /\ probes[task.probe].name \in DOMAIN s3FoundDurabilityItems'
              /\ s3FoundDurabilityItems'[probes[task.probe].name] =
                    Cardinality(DurabilityObjects(task.probe))
              /\ s3ExpectedDurabilityItems'[probes[task.probe].name] = cfg.DurabilityItemTotal

\* the service has been prepared and no one else writes: its durability bucket
\* holds the items 0..durabilityItemTotal-1 and nothing else
SeededExactly ==
    \A service \in prepared :
        ~service.Gateway =>
            storage[<<service.Endpoint, cfg.DurabilityBucketName>>].objects =
                {<<"fake-item-", i>> : i \in 0..(cfg.DurabilityItemTotal - 1)}

\* C22: a durability check that lists without error sets the found gauge to the
\* number of objects listed and the expected gauge to durabilityItemTotal; after a
\* preparation that seeded the bucket, with no other writer, both are
\* durabilityItemTotal
C22_FoundEqualsExpected ==
    /\ [][CountedStep]_vars
    /\ [](/\ SeededExactly
          /\ \A name \in DOMAIN s3FoundDurabilityItems :
                /\ s3FoundDurabilityItems[name] = cfg.DurabilityItemTotal
                /\ name \in DOMAIN s3ExpectedDurabilityItems
          /\ \A name \in DOMAIN s3ExpectedDurabilityItems :
                s3ExpectedDurabilityItems[name] = cfg.DurabilityItemTotal)

\* a durability check has returned without error and both gauges show
\* durabilityItemTotal, after a preparation that made the buckets: the buckets it
\* sets a lifecycle on have one
C22_Witness ==
    /\ \E task \in BagToSet(tasks) :
          /\ task.kind = "durability"
          /\ task.pc = "returned"
          /\ ~task.err
          /\ s3FoundDurabilityItems[probes[task.probe].name] = cfg.DurabilityItemTotal
          /\ s3ExpectedDurabilityItems[probes[task.probe].name] = cfg.DurabilityItemTotal
          /\ Cardinality(DurabilityObjects(task.probe)) = cfg.DurabilityItemTotal
    /\ \A k \in DOMAIN storage : storage[k].lifecycle \/ k[2] = cfg.DurabilityBucketName

\* C23 as stated: a durability check whose listing reports an error ends with that
\* error and leaves the expected gauge and the found gauge as they were
C23_Original ==
    [][\A task \in Listing :
          Listed(task).err =>
              /\ s3FoundDurabilityItems' = s3FoundDurabilityItems
              /\ s3ExpectedDurabilityItems' = s3ExpectedDurabilityItems]_vars

\* C23 amended: a durability check whose listing reports an error ends with that
\* error and leaves the found gauge as it was; the expected gauge it has set to
\* durabilityItemTotal before the listing
C23_ErrorKeepsFoundGauge ==
    [][\A task \in Listing :
          /\ Listed(task).err <=> ~Listed(task).ops[Len(Listed(task).ops)].ok
          /\ Listed(task).err =>
                /\ Listed(task).pc = "returned"
                /\ s3FoundDurabilityItems' = s3FoundDurabilityItems
                /\ s3ExpectedDurabilityItems' =
                      GaugeSet(s3ExpectedDurabilityItems, probes[task.probe].name,
                               cfg.DurabilityItemTotal)]_vars

\* the first durability check of a probe has ended with an error: the expected
\* gauge is set, the found gauge is not
C23_Witness ==
    \E task \in BagToSet(tasks) :
        /\ task.kind = "durability"
        /\ task.pc = "returned"
        /\ task.err
        /\ probes[task.probe].name \notin DOMAIN s3FoundDurabilityItems
        /\ s3ExpectedDurabilityItems[probes[task.probe].name] = cfg.DurabilityItemTotal
\* ------------------------------------------- properties of the gateway check
\* the gateway endpoints of the probe of a check
Replicas(task) == probes[task.probe].gatewayEndpoints

\* the calls of a gateway check after its put: the get and the remove of the
\* first gateway endpoint, then those of the second, each on the object of the
\* check, each counted in the total counter of its endpoint and, when it ended
\* without error, in the success counter
GetsAndRemoves(task) ==
    \A k \in 2..Len(task.ops) :
        /\ task.ops[k].op = IF k % 2 = 0 THEN "gateway_get_object" ELSE "gateway_remove_object"
        /\ k \div 2 <= Len(Replicas(task))
        /\ task.ops[k].at = Replicas(task)[k \div 2]
        /\ task.ops[k].objectName = task.objectName
        /\ "s3GatewayTotalCounter" \in Range(task.ops[k].inc)
        /\ "s3GatewaySuccessCounter" \in Range(task.ops[k].inc) <=> task.ops[k].ok

Elements == Split(rawDestinations, ";")

\* the first element without a colon, or with a line feed when those count;
\* one past the last element when there is none
FirstBad(withLF) ==
    LET bad == {i \in DOMAIN Elements : \/ ":" \notin Range(Elements[i])
                                        \/ withLF /\ LF \in Range(Elements[i])}
    IN IF bad = {} THEN Len(Elements) + 1
       ELSE CHOOSE i \in bad : \A j \in bad : i <= j

\* the result has an error exactly when an element is bad; without error it holds
\* one destination per element, in the order of the value, the datacenter and the
\* service being what comes before and after the last colon of the element
ParsedUpTo(bad) ==
    extracted.called =>
        /\ extracted.err <=> bad <= Len(Elements)
        /\ ~extracted.err =>
              /\ Len(extracted.destinations) = Len(Elements)
              /\ \A i \in DOMAIN Elements :
                    /\ extracted.destinations[i].raw = Elements[i]
                    /\ extracted.destinations[i].datacenter \o <<":">>
                          \o extracted.destinations[i].service = Elements[i]
                    /\ ":" \notin Range(extracted.destinations[i].service)

\* C25 as stated: extractDestinations returns an error whenever an element between
\* semicolons has no colon, wherever it is, and otherwise one (datacenter, service)
\* pair per element in the order of the value
C25_Original == ParsedUpTo(FirstBad(FALSE))

\* C25 amended: extractDestinations returns an error whenever an element between
\* semicolons has no colon or holds a line feed, wherever it is, and otherwise one
\* (datacenter, service) pair per element in the order of the value; with the
\* error come only the pairs of the elements before the first bad one
C25_MalformedElementFails ==
    /\ ParsedUpTo(FirstBad(TRUE))
    /\ (extracted.called /\ extracted.err) =>
          Len(extracted.destinations) = FirstBad(TRUE) - 1

\* a value whose last element has no colon, after an element that has one
C25_Witness ==
    /\ extracted.called
    /\ extracted.err
    /\ Len(Elements) = 2
    /\ Len(extracted.destinations) = 1

\* a value with two well-formed elements that differ
C25_WitnessOrder ==
    /\ extracted.called
    /\ ~extracted.err
    /\ Len(extracted.destinations) = 2
    /\ extracted.destinations[1] # extracted.destinations[2]


\* ---------------------------------------------------------------------------
\* C27: deadlines of the calls of a check
\* ---------------------------------------------------------------------------

\* the calls a check has made so far
CallsOf(task) == {task.ops[k] : k \in 1..Len(task.ops)}

\* a check that waits in a call that is not answered
WaitingForEver(task) == task.pc = "waiting"

\* C27: every storage operation issued by a check runs under a deadline, so no
\* check waits for ever on an endpoint that never answers: every logged call was
\* made with a deadline, and no check is in a call that does not end
C27_Original ==
    \A task \in BagToSet(tasks) :
       /\ \A call \in CallsOf(task) : call.deadline # "none"
       /\ ~WaitingForEver(task)

\* a gateway check whose put was answered waits in the get or the remove of a
\* gateway endpoint that never answers, a call made without deadline
C27_Witness ==
    \E task \in BagToSet(tasks) :
       /\ task.kind = "gateway"
       /\ WaitingForEver(task)
       /\ Len(task.ops) >= 2
       /\ task.ops[1].op = "gateway_put_object" /\ task.ops[1].ok
       /\ task.ops[1].deadline = "latencyTimeout"
       /\ task.ops[Len(task.ops)].op \in {"gateway_get_object", "gateway_remove_object"}
       /\ task.ops[Len(task.ops)].deadline = "none"
       /\ ~ENABLED GatewayStep(task)


\* ---------------------------------------------------------------------------
\* C26: the durability bucket removed under a running probe
\* ---------------------------------------------------------------------------

\* the probes whose loop runs on an entry of the map, of a service that is checked
\* for durability
RunningDurabilityProbes ==
    {c \in DOMAIN probes :
        /\ probes[c].state = "running"
        /\ ~probes[c].gateway
        /\ \E n \in DOMAIN watchedServices : watchedServices[n].probeChan = c}

\* someone removes the durability bucket of an endpoint a running probe checks, to
\* reset the durability check, while the watcher sleeps between two cycles
RemoveDurabilityBucket ==
    /\ pc = "sleep"
    /\ prep.pc = "idle"
    /\ \E c \in RunningDurabilityProbes :
          /\ BucketExists(probes[c].endpoint, cfg.DurabilityBucketName)
          /\ storage' = [key \in DOMAIN storage \ {<<probes[c].endpoint, cfg.DurabilityBucketName>>} |->
                            storage[key]]
    /\ UNCHANGED <<watcherVars, probes, prep, prepared, tasks, gaugeVars, parseVars>>

\* the steps of the goroutine of WatchPools, the preparations it calls included
WatcherStep ==
    \/ GetServices(DurabilityRegistry)
    \/ GetServicesToModify
    \/ FlushDelete
    \/ ControlChanReceive
    \/ FlushClose
    \/ FlushReturn
    \/ NewProbeFromConsul
    \/ PrepareStart
    \/ LatencyBucketExists
    \/ LatencyMakeBucket
    \/ LatencySetBucketLifecycle
    \/ DurabilityBucketExists
    \/ DurabilityListObjects
    \/ DurabilityMakeBucket
    \/ DurabilityPutObject
    \/ PrepareReturn
    \/ Register
    \/ CreateReturn
    \/ Sleep

\* the durability timer of a probe fires
DurabilityTick == \E c \in ChanIds : TickDurabilityProbe(c) /\ NoneWaiting

\* the goroutine of a durability check begins
DurabilityGo == \E c \in ChanIds : GoCheck(c, "durability")

\* a durability check lists the bucket
DurabilityList == \E task \in BagToSet(tasks) : DurabilityStep(task)

\* the goroutine of a check ends
DurabilityExit == \E task \in BagToSet(tasks) : CheckExit(task)

ResetNext ==
    \/ WatcherStep
    \/ DurabilityTick
    \/ DurabilityGo
    \/ DurabilityList
    \/ DurabilityExit
    \/ RemoveDurabilityBucket

\* every goroutine of the program goes on as long as it has a step to take, and the
\* timers fire; the removal of a bucket is up to its operator
ResetSpec ==
    /\ DurabilityInit
    /\ [][ResetNext]_vars
    /\ WF_vars(WatcherStep)
    /\ WF_vars(DurabilityTick)
    /\ WF_vars(DurabilityGo)
    /\ WF_vars(DurabilityList)
    /\ WF_vars(DurabilityExit)

\* a running probe whose durability bucket is not on its endpoint
BucketMissing(c) ==
    /\ c \in RunningDurabilityProbes
    /\ ~BucketExists(probes[c].endpoint, cfg.DurabilityBucketName)

\* the durability bucket of an endpoint holds durabilityItemTotal objects
Reseeded(endpoint) ==
    /\ BucketExists(endpoint, cfg.DurabilityBucketName)
    /\ Cardinality(ListObjects(endpoint, cfg.DurabilityBucketName)) = cfg.DurabilityItemTotal

\* C26: when the durability bucket of a target is removed while its probe runs,
\* the probe eventually makes the bucket again and seeds it with durabilityItemTotal
\* objects
C26_Original ==
    \A c \in ChanIds : \A endpoint \in DurabilityRegistry.endpoints :
        (BucketMissing(c) /\ probes[c].endpoint = endpoint) ~> Reseeded(endpoint)

\* the bucket of a running probe has been removed, the probe is still in the map
\* with its loop running, the watcher sleeps after a cycle that found nothing to
\* change, and a durability check started after the removal has ended with the
\* error of its listing
C26_Witness ==
    \E c \in ChanIds :
        /\ BucketMissing(c)
        /\ pc = "sleep"
        /\ prep.pc = "idle"
        /\ \E task \in BagToSet(tasks) :
              /\ task.probe = c
              /\ task.kind = "durability"
              /\ task.pc = "returned"
              /\ task.err


\* ---------------------------------------------------------------------------
\* C31: the latency bucket and its expiry policy
\* ---------------------------------------------------------------------------

\* a call of PrepareProbing for a simple service has returned nil
SimplePrepared ==
    /\ prep.pc = "done"
    /\ prep.err = NoError
    /\ ~prep.service.Gateway

\* the latency bucket of the service under preparation
LatencyBucket == <<prep.service.Endpoint, cfg.LatencyBucketName>>

\* the preparation has made the latency bucket
LatencyBucketMade ==
    \E k \in Calls({"MakeBucket"}, cfg.LatencyBucketName) : prep.ops[k].ok

\* the latency bucket was there when the preparation began: no MakeBucket, no
\* SetBucketLifecycle and no increment of probeBucketAttempt for it
ExistingLatencyBucketUntouched ==
    (SimplePrepared /\ LatencyBucket \in DOMAIN prep.before) =>
        /\ Calls({"MakeBucket", "SetBucketLifecycle", "probeBucketAttempt"},
                 cfg.LatencyBucketName) = {}
        /\ storage[LatencyBucket] = prep.before[LatencyBucket]

\* C31: a preparation of a simple service that returns nil after making the
\* latency bucket has attached the expiry policy to it; one that finds the bucket
\* makes no bucket, sets no policy and does not count a bucket attempt
C31_Original ==
    /\ (SimplePrepared /\ LatencyBucketMade) => storage[LatencyBucket].lifecycle
    /\ ExistingLatencyBucketUntouched

\* a preparation has made the latency bucket, its SetBucketLifecycle has failed,
\* and it has returned nil with the bucket left without policy
C31_Witness ==
    /\ SimplePrepared
    /\ LatencyBucketMade
    /\ \E k \in Calls({"SetBucketLifecycle"}, cfg.LatencyBucketName) : ~prep.ops[k].ok
    /\ ~storage[LatencyBucket].lifecycle


\* ---------------------------------------------------------------------------
\* C32: PrepareProbing for a simple service, called as the tests call it
\* ---------------------------------------------------------------------------

\* getTestProbe: a simple service and a control channel with room for one value
TestService == [Name |-> "test", Endpoint |-> "10.0.0.1", Gateway |-> FALSE,
                GatewayReadEnpoints |-> <<>>]

\* the probe of getTestProbe before any call: channel 1 is its control channel, no
\* StartProbing runs, and PrepareProbing is about to be called
TestInit ==
    /\ cfg = DefaultConfig
    /\ watchedServices = <<>>
    /\ probes = <<>>
    /\ services = {}
    /\ servicesFromConsul = <<>>
    /\ servicesToAdd = <<TestService>>
    /\ chans = [c \in {1} |-> [sent |-> 0, closed |-> FALSE]]
    /\ nextChan = 2
    /\ probeChan = 1
    /\ pc = "prepare"
    /\ errorCounter = [l \in Labels |-> 0]
    /\ listFailed = FALSE
    /\ failedNames = {}
    /\ servicesToRemove = <<>>
    /\ flushIdx = 0
    /\ removedChans = <<>>
    /\ createIdx = 0
    /\ outcome = <<>>
    /\ creationLog = {}
    /\ storage \in {NoStorage, PartialStorage, SeededStorage}
    /\ prep = PrepIdle
    /\ prepared = {}
    /\ tasks = EmptyBag
    /\ s3ExpectedDurabilityItems = <<>>
    /\ s3FoundDurabilityItems = <<>>
    /\ NotParsing

\* TestPrepareProbingProperlyTerminate: `controlChan <- false` between two calls of
\* PrepareProbing; the channel holds one value
TestSend ==
    /\ prep.pc = "idle"
    /\ chans[probeChan].sent = 0
    /\ chans' = [chans EXCEPT ![probeChan].sent = 1]
    /\ UNCHANGED <<cfg, watchedServices, errorCounter, pc, listFailed, services, failedNames,
                   servicesFromConsul, servicesToAdd, servicesToRemove, flushIdx,
                   removedChans, createIdx, outcome, probeChan, nextChan, probes,
                   creationLog>>
    /\ UNCHANGED envVars

\* the test looks at the error PrepareProbing has returned and goes on
TestReturn ==
    /\ prep.pc = "done"
    /\ prep' = PrepIdle
    /\ UNCHANGED <<prepVars, storage>>

TestNext ==
    \/ TestSend
    \/ PrepareStart
    \/ LatencyBucketExists
    \/ LatencyMakeBucket
    \/ LatencySetBucketLifecycle
    \/ DurabilityBucketExists
    \/ DurabilityListObjects
    \/ DurabilityMakeBucket
    \/ DurabilityPutObject
    \/ TestReturn

TestSpec == TestInit /\ [][TestNext]_vars

\* the values sent on a channel and not received: no StartProbing of the tests'
\* probe runs, so nothing is received
PendingOn(c) ==
    chans[c].sent - (IF c \in DOMAIN probes /\ probes[c].state = "returned" THEN 1 ELSE 0)

\* the calls of the preparation on the latency bucket come before its calls on the
\* durability bucket
LatencyFirst ==
    \A k \in Calls(StorageOps, cfg.LatencyBucketName) :
       \A j \in Calls(StorageOps, cfg.DurabilityBucketName) : k < j

\* a BucketExists or MakeBucket of the latency bucket that fails ends PrepareProbing
\* with its error, and there is no call on the durability bucket
LatencyErrorReturned ==
    \A k \in Calls({"BucketExists", "MakeBucket"}, cfg.LatencyBucketName) :
       ~prep.ops[k].ok =>
          /\ prep.pc = "done"
          /\ prep.err = [op |-> prep.ops[k].op, at |-> prep.service.Endpoint]
          /\ k = Len(prep.ops)
          /\ Calls(StorageOps \cup {"probeBucketAttempt"}, cfg.DurabilityBucketName) = {}

\* a step of PrepareProbing, from its call to its return statement
PrepareStep == prep.pc # "done" /\ prep' # prep

\* a step of PrepareProbing leaves the control channel and what it holds as they are

ChannelUntouched ==
    PrepareStep => /\ chans' = chans
                   /\ PendingOn(probeChan)' = PendingOn(probeChan)

\* C32: PrepareProbing for a simple service prepares the latency bucket first and
\* the durability bucket second; when the preparation of the latency bucket fails
\* it returns that error with no call on the durability bucket; and it never
\* receives from the control channel: a value pending there stays pending
C32_LatencyThenDurability ==
    /\ [](LatencyFirst /\ LatencyErrorReturned)
    /\ [][ChannelUntouched]_vars

\* a value was on the control channel when PrepareProbing was called; the call has
\* returned nil after calls on the latency bucket and then on the durability
\* bucket, and the value is still there
C32_Witness ==
    /\ prep.pc = "done"
    /\ prep.err = NoError
    /\ PendingOn(probeChan) = 1
    /\ Calls(StorageOps, cfg.LatencyBucketName) # {}
    /\ Calls(StorageOps, cfg.DurabilityBucketName) # {}

\* a value is on the control channel and PrepareProbing has returned the error of
\* the latency bucket
C32_WitnessError ==
    /\ prep.pc = "done"
    /\ prep.err # NoError
    /\ PendingOn(probeChan) = 1
    /\ \E k \in Calls({"BucketExists", "MakeBucket"}, cfg.LatencyBucketName) : ~prep.ops[k].ok


\* ---------------------------------------------------------------------------
\* C33: the life of a control channel
\* ---------------------------------------------------------------------------

\* the channels of the map entries
MappedChans == {watchedServices[n].probeChan : n \in DOMAIN watchedServices}

\* the channels made in this cycle for a probe whose preparation failed
FailedPreparationChans ==
    {ChanOfAdd(j) : j \in {i \in DOMAIN outcome : outcome[i] = "prepErr"}}

\* what has happened to each channel so far: at most one send; a send only to a
\* probe that was started and has no map entry any more, followed by the close; a
\* close without send only after a failed preparation; no map entry on a closed
\* channel; and the channel the watcher is about to send on or to close is open
ChannelLifeCycle ==
    /\ \A c \in DOMAIN chans :
          /\ chans[c].sent \in {0, 1}
          /\ chans[c].sent = 1 =>
                /\ c \in DOMAIN probes
                /\ probes[c].state = "returned"
                /\ c \notin MappedChans
                /\ chans[c].closed \/ (pc = "flushClose" /\ probeChan = c)
          /\ (chans[c].closed /\ chans[c].sent = 0) =>
                /\ c \in FailedPreparationChans
                /\ c \notin DOMAIN probes
          /\ chans[c].closed => c \notin MappedChans
    /\ pc = "flushSend" => chans[probeChan] = [sent |-> 0, closed |-> FALSE]
    /\ pc = "flushClose" => chans[probeChan] = [sent |-> 1, closed |-> FALSE]
    /\ pc \in {"prepare", "register"} => chans[probeChan] = [sent |-> 0, closed |-> FALSE]
    /\ MappedChans \subseteq DOMAIN chans

\* a step changes a channel only by one send on an open channel never sent on, or
\* by closing an open channel; a closed channel is left as it is, and the only
\* channel that appears is a new one
ChannelStep ==
    /\ \A c \in DOMAIN chans \cap DOMAIN chans' :
          chans'[c] # chans[c] =>
             /\ ~chans[c].closed
             /\ \/ chans'[c] = [sent |-> 1, closed |-> FALSE] /\ chans[c].sent = 0
                \/ chans'[c] = [chans[c] EXCEPT !.closed = TRUE]
    /\ DOMAIN chans' \ DOMAIN chans \subseteq {nextChan}
    /\ nextChan' >= nextChan
    /\ \A c \in DOMAIN chans' \ DOMAIN chans :
          nextChan' > c /\ chans'[c] = [sent |-> 0, closed |-> FALSE]
    /\ \A c \in DOMAIN chans : c < nextChan

\* C33: over any sequence of cycles each control channel is sent on at most once
\* and closed at most once, and the watcher never sends on or closes a closed
\* channel: a channel is closed without a send after a failed preparation, or sent
\* on once and then closed when its probe is flushed, after which it has no map
\* entry and is not used again
C33_ChannelSentAndClosedOnce ==
    /\ []ChannelLifeCycle
    /\ [][ChannelStep]_vars

\* in one cycle a channel has been sent on and closed by the flush and another has
\* been closed without a send after a failed preparation
C33_Witness ==
    /\ \E c \in DOMAIN chans : chans[c] = [sent |-> 1, closed |-> TRUE]
    /\ \E c \in DOMAIN chans : chans[c] = [sent |-> 0, closed |-> TRUE]
    /\ pc = "sleep"


\* ---------------------------------------------------------------------------
\* C34: the stop signal is received
\* ---------------------------------------------------------------------------

\* one service on one endpoint, registered or not, as a gateway or not
StopRegistry == [names |-> {"s1"}, endpoints |-> {"10.0.0.1"},
                 gatewayEndpoints |-> {"10.0.0.1"},
                 readEndpointLists |-> {<<"r1">>}]

\* the watcher, the loops of the probes it starts and their checks
StopNext ==
    \/ GetServices(StopRegistry)
    \/ GetServicesToModify
    \/ FlushDelete
    \/ ControlChanReceive
    \/ FlushClose
    \/ FlushReturn
    \/ NewProbeFromConsul
    \/ PrepareProbing
    \/ Register
    \/ CreateReturn
    \/ Sleep
    \/ \E c \in ChanIds : TickProbe(c)
    \/ \E c \in ChanIds : TickDurabilityProbe(c)
    \/ \E c \in ChanIds, kind \in Kinds : CheckReturn(c, kind)

\* under the default rates, with which both timers fire: the goroutine of
\* WatchPools goes on in flushOldProbes whenever it can, and a select whose
\* controlChan case stays ready takes it in the end (a select picks among its ready
\* cases at random); nothing is assumed of the timers or of the checks, which may
\* fire for ever and never return
StopSpec ==
    /\ Init
    /\ [][StopNext]_vars
    /\ WF_vars(FlushDelete)
    /\ WF_vars(ControlChanReceive)
    /\ WF_vars(FlushClose)
    /\ WF_vars(FlushReturn)

\* the watcher is in `ws.probeChan <- false`
Sending == pc = "flushSend"

\* the probe the watcher sends to runs its loop and can take the stop case, whatever
\* checks it has in flight
StopCaseReady ==
    Sending => /\ probeChan \in DOMAIN probes
               /\ probes[probeChan].state = "running"
               /\ ENABLED ControlChanReceive

\* C34: every stop signal the watcher sends to a registered probe is received in
\* the end, because the loop of the probe is never held up by a check; so
\* flushOldProbes returns, also when the triggers of the probe keep firing and its
\* checks never return
C34_StopSignalReceived ==
    /\ []StopCaseReady
    /\ Sending ~> (pc = "flushClose")
    /\ (pc \in FlushPhase) ~> (pc = "create")

\* the watcher is sending to a probe that has checks in flight and whose trigger
\* can fire again
C34_Witness ==
    /\ Sending
    /\ InFlight(probes[probeChan]) >= 2
    /\ ENABLED TickProbe(probeChan)


\* ---------------------------------------------------------------------------
\* C35: the map and the running loops, between two cycles
\* ---------------------------------------------------------------------------

\* the names with a loop that was started and has not received its stop signal
RunningNames == {probes[c].name : c \in {x \in DOMAIN probes : probes[x].state = "running"}}

\* the entry of a name holds the channel of the one running loop of that name, a
\* probe built from the service of the entry, whose preparation returned nil
EntryRuns(n) ==
    LET ws == watchedServices[n] IN
    /\ RunningLoops(n) = {ws.probeChan}
    /\ probes[ws.probeChan].controlChan = ws.probeChan
    /\ probes[ws.probeChan].endpoint = ws.service.Endpoint
    /\ probes[ws.probeChan].gateway = ws.service.Gateway
    /\ ws.service.Name = n
    /\ ws.service \in prepared

\* C35: whenever the watcher is at its sleep, the names of its map are the names
\* with a started loop that has not received the stop signal, and each of these
\* probes passed its preparation: no running loop without entry, no entry without
\* running loop
C35_MapIsRunningLoops ==
    pc = "sleep" =>
        /\ DOMAIN watchedServices = RunningNames
        /\ \A n \in DOMAIN watchedServices : EntryRuns(n)

\* the watcher sleeps after a cycle that stopped the loop of a name and started
\* another for it
C35_Witness ==
    /\ pc = "sleep"
    /\ \E n \in DOMAIN watchedServices :
          \E c \in DOMAIN probes : /\ probes[c].name = n
                                   /\ probes[c].state = "returned"
                                   /\ c # watchedServices[n].probeChan

\* in the middle of a flush a loop runs without entry
C35_WitnessFlush ==
    /\ pc = "flushSend"
    /\ DOMAIN watchedServices # RunningNames


\* ---------------------------------------------------------------------------
\* C36: success counters and total counters
\* ---------------------------------------------------------------------------

\* the total counter and the success counter of each family
TotalOf == [s3SuccessCounter |-> "s3TotalCounter",
            s3GatewaySuccessCounter |-> "s3GatewayTotalCounter"]

\* the labels a counter of a call is incremented with: operation and probe name,
\* and for the gateway counters the gateway endpoint
LabelsOf(task, call, counter) ==
    IF counter \in {"s3GatewayTotalCounter", "s3GatewaySuccessCounter"}
    THEN <<call.op, probes[task.probe].name, call.at>>
    ELSE <<call.op, probes[task.probe].name>>

\* the increments of a counter with given labels made by the checks that have not
\* ended: one element per check, call and position
IncrementsOf(counter, labels) ==
    {<<task, n, k, j>> \in UNION {{<<task, n, k, j>> : n \in 1..CopiesIn(task, tasks),
                                                       k \in DOMAIN task.ops,
                                                       j \in 1..2} : task \in BagToSet(tasks)} :
        /\ j \in DOMAIN task.ops[k].inc
        /\ task.ops[k].inc[j] = counter
        /\ LabelsOf(task, task.ops[k], counter) = labels}

\* the label tuples in use
LabelTuples(counter) ==
    {LabelsOf(task, task.ops[k], counter) : <<task, k>> \in
        UNION {{<<task, k>> : k \in DOMAIN task.ops} : task \in BagToSet(tasks)}}

\* a call that is counted increments the total counter of its family once, first,
\* and the success counter at most once, after it, exactly when it ended without
\* error
CountedOnce(call) ==
    LET total == IF call.op \in {"gateway_get_object", "gateway_remove_object"}
                 THEN "s3GatewayTotalCounter" ELSE "s3TotalCounter"
    IN /\ Len(call.inc) \in {1, 2}
       /\ call.inc[1] = total
       /\ Len(call.inc) = 2 <=> call.ok
       /\ Len(call.inc) = 2 => (call.inc[2] \in DOMAIN TotalOf /\ TotalOf[call.inc[2]] = total)

TimerRates == (-1)..MaxRate

\* the probe of a configuration with any accepted check rate, before StartProbing
TimerInit ==
    /\ InitWith({[DefaultConfig EXCEPT !.ProbeRatePerMin = r] : r \in TimerRates})
    /\ storage = NoStorage
    /\ NotParsing

\* StartProbing makes its two timers
StartProbingTimers ==
    /\ probes = <<>>
    /\ probes' = (1 :> NewProbe(TestService, 1))
    /\ UNCHANGED <<watcherVars, envVars>>

TimerNext == StartProbingTimers

TimerSpec == TimerInit /\ [][TimerNext]_vars

\* C37: for every rate r >= 1 the configuration accepts, the period
\* millisecondInMinute / r is strictly positive and the ticker is made; only rate 0
\* gives the timer that never fires
C37_Original ==
    \A c \in DOMAIN probes :
        LET r == probes[c].probeRatePerMin IN
        /\ r >= 1 => /\ Quo(millisecondInMinute, r) > 0
                     /\ probes[c].tickerProbe.Ticker = "running"
        /\ probes[c].tickerProbe.Ticker = "nil" <=> r = 0

\* StartProbing has been called with a check rate above millisecondInMinute: the
\* period is 0 and time.NewTicker has panicked
C37_Witness ==
    \E c \in DOMAIN probes :
        /\ probes[c].probeRatePerMin > millisecondInMinute
        /\ probes[c].tickerProbe = [Ticker |-> "panic", interval |-> 0]

\* what holds: the ticker is made exactly for the rates from 1 to
\* millisecondInMinute, and rate 0 alone gives the timer that never fires
TimerMadeUpToOnePerMillisecond ==
    \A c \in DOMAIN probes :
        LET r == probes[c].probeRatePerMin IN
        /\ probes[c].tickerProbe.Ticker = "running" <=> r \in 1..millisecondInMinute
        /\ probes[c].tickerProbe.Ticker = "nil" <=> r = 0
        /\ probes[c].tickerProbe.Ticker = "panic" <=> (r < 0 \/ r > millisecondInMinute)


\* ---------------------------------------------------------------------------
\* C38: a gateway check whose put fails
\* ---------------------------------------------------------------------------

\* the gateway checks whose put has failed
FailedPuts ==
    {task \in Checks("gateway") : Len(task.ops) >= 1 /\ ~task.ops[1].ok}

\* the counters of the gateway endpoints
GatewayCounters == {"s3GatewayTotalCounter", "s3GatewaySuccessCounter"}

\* C38: a gateway check whose put through the gateway fails returns that error
\* after counting the put alone, in the total counter and not in the success
\* counter: no gateway endpoint is read from or removed from, and no counter of a
\* gateway endpoint is incremented
C38_FailedPutEndsTheCheck ==
    \A task \in FailedPuts :
        /\ task.pc = "returned"
        /\ task.err
        /\ Len(task.ops) = 1
        /\ task.ops[1].op = "gateway_put_object"
        /\ task.ops[1].at = probes[task.probe].endpoint
        /\ task.ops[1].inc = <<"s3TotalCounter">>
        /\ \A call \in CallsOf(task) :
              /\ call.at \notin Range(Replicas(task))
              /\ Range(call.inc) \cap GatewayCounters = {}
        /\ ~ENABLED GatewayStep(task)

\* the put of a gateway check with two gateway endpoints has failed and the check
\* has returned
C38_Witness ==
    \E task \in FailedPuts :
        /\ task.pc = "returned"
        /\ Len(Replicas(task)) = 2
        /\ ENABLED CheckExit(task)


\* ---------------------------------------------------------------------------
\* C39: the read loop of the gateway check
\* ---------------------------------------------------------------------------

\* a gateway check that is in its read loop for good: its one obj.Read returned
\* data and no error, and the loop neither reads again nor ends
Draining(task) == task.pc = "spinning"

\* a gateway check whose last call is a get that was answered has left the read
\* loop: the get counts as a success exactly when the read ended with the end of
\* the stream, and the remove on the same gateway endpoint is the next step
Drained(task) ==
    (/\ Len(task.ops) >= 2
     /\ task.ops[Len(task.ops)].op = "gateway_get_object"
     /\ task.pc # "waiting") =>
        /\ task.pc = "gateway_remove_object"
        /\ ENABLED GatewayStep(task)

\* C39: whatever the reads of a gateway endpoint return (data without error, the
\* end of the stream, or an error), the read loop of the gateway check ends, the get
\* counts as a success exactly when it ended with the end of the stream, and the
\* check goes on to the remove: the check ends for every gateway endpoint
C39_Original ==
    \A task \in Checks("gateway") :
        /\ ~Draining(task)
        /\ Drained(task)

\* the read of a gateway check has returned data without error: the check is in
\* its read loop with the get counted in the total counter only, the remove of
\* that gateway endpoint is never made and the check has no further step
C39_Witness ==
    \E task \in Checks("gateway") :
        /\ Draining(task)
        /\ task.ops[Len(task.ops)].op = "gateway_get_object"
        /\ task.ops[Len(task.ops)].inc = <<"s3GatewayTotalCounter">>
        /\ ~ENABLED GatewayStep(task)
        /\ ~ENABLED CheckExit(task)

====
